---------------------------- MODULE Spec2Model ----------------------------
(***************************************************************************)
(* A model of optable-pair-cli: the protocol orchestrator (pkg/cmd/cli),   *)
(* the batched transform engine and the matcher (pkg/pair).                *)
(*                                                                         *)
(* The specifications share the module; SpecMatch reuses the reader of     *)
(* the engine, the other variables belong to one group each:               *)
(*   SpecRun     RunCmd.Run and the three steps it drives                  *)
(*   SpecRunFair SpecRun with the scheduling of Run and of its timers      *)
(*   SpecResume  RunCmd.Run invoked again after an aborted invocation      *)
(*   SpecEngine  NewPAIRIDReadWriter / readPAIRIDs / runPAIROperation      *)
(*   SpecEngineFair  SpecEngine with the scheduling of its goroutines      *)
(*   SpecCopy    SpecEngine with a secondary writer                        *)
(*   SpecAbort   the reader of an operation that aborts                    *)
(*   SpecMatch   NewMatcher / Matcher.Match                                *)
(*   SpecClient  the calls of the commands to the coordination service     *)
(*   SpecKey     CreateCmd.Run on the key configuration file               *)
(*   SpecParse   SpecEngine and SpecMatch together (malformed lines)       *)
(*   SpecEngineEnds  SpecEngineFair on an input that ends or fails         *)
(*   SpecForward the producer and consumers of Match on a full channel     *)
(*   SpecList    the listing of a storage location                         *)
(*                                                                         *)
(* Errors are chains of strings, outermost wrapper first: the Go error     *)
(* fmt.Errorf("hashEncryt: %w", fmt.Errorf("pairRW.HashEncrypt: %w", e))   *)
(* is <<"hashEncryt", "pairRW.HashEncrypt">> \o e.  Nil is the empty chain.*)
(***************************************************************************)
EXTENDS Integers, Sequences, FiniteSets, TLC

VARIABLES
    \* ---- orchestrator (SpecRun) ----
    cleanroom,        \* remote: the participants list the coordination service returns
    output,           \* RunCmd.Output given ("" is FALSE)
    publisherData,    \* RunCmd.PublisherPAIRIDs given ("" is FALSE)
    runPc,            \* position of Run
    publisherState,   \* Run's local publisherState
    advertiserState,  \* Run's local advertiserState
    action,           \* the action struct actionFromStates returned
    executed,         \* the steps whose function has been called, in call order
    err,              \* the named result err of the step being executed
    objects,          \* location -> the data objects written there by this run
    markers,          \* locations holding a .Completed object
    polls,            \* GetCleanroom calls made by waitForState
    pollPending,      \* waitForState is inside a GetCleanroom call
    callerCtx,        \* Err() of the context Run was given
    dataRead,         \* locations (and local inputs) opened for reading
    rwIndex,          \* reEncrypt: index of the ReadWriter the loop is at
    result,           \* what Run returned; Pending until it returns
    invocation,       \* how many times the command has been invoked
    stored,           \* locations whose data earlier invocations committed in full
    leftover,         \* locations where an earlier invocation committed a partial object
    \* ---- the listing of a storage location (SpecList) ----
    listing,          \* remote: the objects under the prefix, as the iterator yields them
    listPc,           \* position of readersFromPrefixedBucket
    listPos,          \* how many objects it.Next() has returned
    readers,          \* the names of the objects a reader was opened for, in order
    listErr,          \* the error the listing returned
    \* ---- the commands' calls of the coordination service (SpecClient) ----
    command,          \* the command invoked: "get" or "run"
    sensitive,        \* GetCmd.View is "sensitive"
    tokenState,       \* remote: the GCS token of the clean room: none, expired or valid
    cliPc,            \* position of the command
    calls,            \* the calls of cleanroomClient.do that returned, in order
    cmdResult,        \* what the command returned; Pending until then
    \* ---- the key create command (SpecKey) ----
    keyFile,          \* the key configuration file: readable or not, context -> key (0: none)
    generated,        \* keys generated so far; the keys are 1..generated
    lastCreate,       \* the last invocation of key create: its arguments, the file before, its result
    \* ---- transform engine (SpecEngine) ----
    inputLen,         \* records of the input stream; the records are 1..inputLen
    op,               \* the Operation of the call
    keyOk,            \* keys.NewPAIRPrivateKey(salt, privateKey) succeeds
    requested,        \* numWorkers as passed by the caller
    maxWorkers,       \* runtime.GOMAXPROCS(0)
    readerPc,         \* position of the readPAIRIDs goroutine
    pos,              \* records the csv reader has consumed
    ids,              \* readPAIRIDs: the batch being built
    read,             \* pairIDReader.read
    readerErr,        \* pairIDReader.err
    batch,            \* pairIDReader.batch, the channel's buffer
    batchClosed,      \* close(p.batch) was executed
    mainPc,           \* position of runPAIROperation's loop
    done,             \* the done channel's buffer (0 or 1 element)
    doneClosed,       \* close(done) was executed
    errChan,          \* the errChan channel's buffer
    errChanClosed,    \* close(errChan) was executed
    once,             \* sync.Once has run
    ctxErr,           \* ctx.Err() of the operation's context
    gErr,             \* the errgroup's first error
    wpc,              \* worker slot -> position of the goroutine in it
    wids,             \* worker slot -> the batch it holds
    worder,           \* worker slot -> the order of the records of that batch
    werr,             \* worker slot -> the error it is about to report
    writeLock,        \* p.writeLock: 0 or the slot holding it
    written,          \* IDReadWriter.written
    out,              \* the output sink: the chunks written, in order
    panicked,         \* a goroutine panicked (send on a closed channel)
    checks,           \* times the minimumIDCount check was made
    faulted,          \* a parse, transform, write or key error or a timeout occurred
    opResult,         \* what runPAIROperation returned; Pending until then
    firstFailure,     \* the error of the first goroutine that failed; Nil if none
    secondary,        \* WithSecondaryWriter was given to NewPAIRIDReadWriter
    out2,             \* the secondary writer's sink: the chunks written, in order
    signals,          \* history: the sends on done that were made
    sent,             \* history: the batches the reader sent on p.batch, in order
    \* ---- matcher (SpecMatch); it shares the reader, ctxErr and gErr ----
    advStreams,       \* the advertiser readers' contents: a sequence of streams
    pubPattern,       \* the publisher stream repeats this pattern: see pubID
    advPc,            \* advertiser stream -> position of its reading goroutine
    advPos,           \* advertiser stream -> records read from it
    maps,             \* NewMatcher: advertiser stream -> its map, as a set
    advRead,          \* Matcher.advRead
    newCtxErr,        \* NewMatcher: Err() of its errgroup's context
    newErr,           \* NewMatcher: its errgroup's first error
    hashMap,          \* Matcher.hashMap, as a set
    matchPc,          \* position of the caller: NewMatcher, then Match
    prodPc,           \* position of the producer goroutine
    prodBatch,        \* producer: the batch it iterates
    cursor,           \* producer: the next record of prodBatch
    intersected,      \* Matcher.intersected, the channel's buffer
    intersectedClosed,\* close(m.intersected) was executed
    cpc,              \* consumer -> position of its goroutine
    wsnap,            \* consumer -> w.writers as its append read it
    wbuf,             \* consumer -> the records its csv.Writer buffers
    files,            \* consumer -> the records flushed to result_<i>.csv
    writers,          \* writer.writers: the indexes of the files registered
    mWritten,         \* writer.written
    forwarded,        \* every id sent on m.intersected, in order
    matchResult       \* what NewMatcher or Match returned; Pending until then

runVars == <<cleanroom, output, publisherData, runPc, publisherState,
             advertiserState, action, executed, err, objects, markers,
             polls, dataRead, rwIndex, result, invocation, stored, leftover,
             command, sensitive, tokenState, cliPc, calls, cmdResult,
             keyFile, generated, lastCreate, pollPending, callerCtx,
             listing, listPc, listPos, readers, listErr>>

resVars == <<invocation, stored, leftover>>

cliVars == <<command, sensitive, tokenState, cliPc, calls, cmdResult>>

keyVars == <<keyFile, generated, lastCreate>>

waitVars == <<pollPending, callerCtx>>

listVars == <<listing, listPc, listPos, readers, listErr>>

stepVars == <<cleanroom, output, publisherData, runPc, publisherState,
              advertiserState, action, executed, err, objects, markers,
              polls, dataRead, rwIndex, result, invocation, stored, leftover,
              pollPending, callerCtx>>

engVars == <<inputLen, op, keyOk, requested, maxWorkers, readerPc, pos, ids,
             read, readerErr, batch, batchClosed, mainPc, done, doneClosed,
             errChan, errChanClosed, once, ctxErr, gErr, wpc, wids, werr,
             writeLock, written, out, panicked, checks, faulted, opResult,
             firstFailure, worder, secondary, out2, signals, sent>>

matVars == <<advStreams, pubPattern, advPc, advPos, maps, advRead, newCtxErr,
             newErr, hashMap, matchPc, prodPc, prodBatch, cursor, intersected,
             intersectedClosed, cpc, wsnap, wbuf, files, writers, mWritten,
             forwarded, matchResult>>

vars == <<runVars, engVars, matVars>>

-----------------------------------------------------------------------------
\* Errors

Nil == <<>>
Pending == <<"pending">>

Wrap(name, e) == <<name>> \o e

\* io.EOF and the errors of a context
EOF == <<"EOF">>
Canceled == <<"context canceled">>
DeadlineExceeded == <<"context deadline exceeded">>

\* Mutant: every terminal condition of the reader counts as end of stream.
isEOF_always(e) == TRUE

\* errors.Is(err, io.EOF)
isEOF(e) == e = EOF

-----------------------------------------------------------------------------
\* Bounds

MaxParticipants == 2
MaxObjects == 2
MaxPolls == 2
MaxBatches == 1
MaxRequested == 2
MaxProcs == 2
MaxIDs == 2
MaxAdvStreams == 2
MaxAdvLen == 1
MaxShuffle == 3

-----------------------------------------------------------------------------
\* Participant roles and states of the coordination service (package v1).
\* The zero value of a state variable is STATE_UNSPECIFIED.

Roles == {"ROLE_UNSPECIFIED", "PUBLISHER", "ADVERTISER"}

States == <<"STATE_UNSPECIFIED", "INVITED", "DATA_CONTRIBUTED",
            "DATA_TRANSFORMING", "DATA_TRANSFORMED", "RUNNING", "SUCCEEDED">>

StateSet == {States[i] : i \in 1..Len(States)}

Participants == [role : Roles, state : StateSet]

Cleanrooms == UNION {[1..n -> Participants] : n \in 0..MaxParticipants}

\* The storage locations of the clean room, the local copy of the publisher
\* data and the local match output.
Locations == {"advTwice", "pubTwice", "advTriple", "pubTriple", "local", "output"}

\* A data object a step writes: what has been written to it and whether its
\* writer was closed (an object is committed by a successful Close).
NewObject == [content |-> "none", closed |-> "open"]

Durable(o) == o.content = "full" /\ o.closed = "closed"

\* What HashEncrypt / ReEncrypt can return to a step.
ErrInputBelowThreshold == <<"not enough identifiers for a secure PAIR ID match">>

EngineResults ==
    { Nil,
      ErrInputBelowThreshold,
      <<"g.Wait", "p.Operate", "encrypt", "crypto">>,
      <<"p.Operate", "parse error">>,
      <<"context deadline exceeded">> }

MatchResults ==
    { Nil, <<"NewPAIRPrivateKey">>, <<"decrypt">>, <<"parse error">>,
      <<"context deadline exceeded">> }

-----------------------------------------------------------------------------
\* RunCmd.Run: the observed states

Max(S) == CHOOSE x \in S : \A y \in S : y <= x
Min(S) == CHOOSE x \in S : \A y \in S : x <= y

\* The loop over cleanroom.GetParticipants(): the last participant of the
\* role sets the variable, which otherwise keeps its zero value.
stateOfRole(cr, role) ==
    LET idx == {i \in DOMAIN cr : cr[i].role = role}
    IN  IF idx = {} THEN "STATE_UNSPECIFIED" ELSE cr[Max(idx)].state

noAction == [contributeAdvertiserData |-> FALSE,
             reEncryptPublisherData   |-> FALSE,
             matchData                |-> FALSE]

\* Mutant: the switch without the fallthrough of DATA_TRANSFORMING.
actionFromStates_noFallthrough(pub, adv) ==
    CASE pub = "DATA_CONTRIBUTED" ->
            IF adv = "INVITED"
            THEN [noAction EXCEPT !.contributeAdvertiserData = TRUE]
            ELSE IF adv = "DATA_CONTRIBUTED"
            THEN [noAction EXCEPT !.reEncryptPublisherData = TRUE]
            ELSE IF adv = "DATA_TRANSFORMED"
            THEN [noAction EXCEPT !.matchData = TRUE]
            ELSE noAction
      [] pub = "DATA_TRANSFORMED" ->
            IF adv = "DATA_CONTRIBUTED"
            THEN [noAction EXCEPT !.reEncryptPublisherData = TRUE]
            ELSE IF adv = "DATA_TRANSFORMED"
            THEN [noAction EXCEPT !.matchData = TRUE]
            ELSE noAction
      [] pub \in {"RUNNING", "SUCCEEDED"} ->
            IF adv = "DATA_TRANSFORMED"
            THEN [noAction EXCEPT !.matchData = TRUE]
            ELSE noAction
      [] OTHER -> noAction

actionFromStates(pub, adv) ==
    CASE pub = "DATA_CONTRIBUTED" ->
            IF adv = "INVITED"
            THEN [noAction EXCEPT !.contributeAdvertiserData = TRUE]
            ELSE IF adv = "DATA_CONTRIBUTED"
            THEN [noAction EXCEPT !.reEncryptPublisherData = TRUE]
            ELSE IF adv = "DATA_TRANSFORMED"
            THEN [noAction EXCEPT !.matchData = TRUE]
            ELSE noAction
      [] pub \in {"DATA_TRANSFORMING", "DATA_TRANSFORMED"} ->
            IF adv = "DATA_CONTRIBUTED"
            THEN [noAction EXCEPT !.reEncryptPublisherData = TRUE]
            ELSE IF adv = "DATA_TRANSFORMED"
            THEN [noAction EXCEPT !.matchData = TRUE]
            ELSE noAction
      [] pub \in {"RUNNING", "SUCCEEDED"} ->
            IF adv = "DATA_TRANSFORMED"
            THEN [noAction EXCEPT !.matchData = TRUE]
            ELSE noAction
      [] OTHER -> noAction

\* Mutant: Run falls through to the match when no action is selected.
firstStep_matchByDefault(a) ==
    IF a.contributeAdvertiserData THEN 1
    ELSE IF a.reEncryptPublisherData THEN 2
    ELSE 3

\* The step Run starts from: the first of the three ifs of Run that holds.
firstStep(a) ==
    IF a.contributeAdvertiserData THEN 1
    ELSE IF a.reEncryptPublisherData THEN 2
    ELSE IF a.matchData THEN 3
    ELSE 0

unexpectedState(adv, pub) == <<"unexpected advertiser state", adv, "and publisher state", pub>>

-----------------------------------------------------------------------------
\* startFromStepOne / startFromStepTwo / startFromStepThree

entryPc(s) == CASE s = 1 -> "hashEncryt" [] s = 2 -> "reEncrypt" [] s = 3 -> "match_wait"

\* Mutant: startFromStepOne goes from step 1 to the match, skipping step 2.
stepAfter_skipsStepTwo(s, hasOutput) ==
    CASE s = 1 -> IF hasOutput THEN 3 ELSE 0
      [] s = 2 -> IF hasOutput THEN 3 ELSE 0
      [] OTHER -> 0

\* Mutant: startFromStepOne and startFromStepTwo call the match whether or
\* not an output is given.
stepAfter_ignoresOutput(s, hasOutput) ==
    CASE s = 1 -> 2
      [] s = 2 -> 3
      [] OTHER -> 0

\* The step the startFrom functions call after step s returned nil; 0: return nil.
stepAfter(s, hasOutput) ==
    CASE s = 1 -> 2
      [] s = 2 -> IF hasOutput THEN 3 ELSE 0
      [] OTHER -> 0

\* Mutant: the error of step 2 is returned without its step name.
stepError_reEncryptUnwrapped(s, e) ==
    CASE s = 1 -> Wrap("hashEncryt", e)
      [] OTHER -> e

\* The error Run returns when step s returned e.
stepError(s, e) ==
    CASE s = 1 -> Wrap("hashEncryt", e)
      [] s = 2 -> Wrap("reEncrypt", e)
      [] OTHER -> e

enter(s) ==
    /\ runPc' = entryPc(s)
    /\ executed' = Append(executed, s)
    /\ UNCHANGED result

\* Step s returned e to its startFrom function.
return(s, e) ==
    IF e # Nil
    THEN /\ result' = stepError(s, e)
         /\ runPc' = "done"
         /\ UNCHANGED executed
    ELSE IF stepAfter(s, output) = 0
    THEN /\ result' = Nil
         /\ runPc' = "done"
         /\ UNCHANGED executed
    ELSE enter(stepAfter(s, output))

Run ==
    /\ runPc = "start"
    /\ \E ok \in BOOLEAN :
         IF ~ok
         THEN /\ result' = <<"GetCleanroom", "unexpected status code">>
              /\ runPc' = "done"
              /\ UNCHANGED <<publisherState, advertiserState, action, executed>>
         ELSE LET pub == stateOfRole(cleanroom, "PUBLISHER")
                  adv == stateOfRole(cleanroom, "ADVERTISER")
                  a   == actionFromStates(pub, adv)
                  s   == firstStep(a)
              IN  /\ publisherState' = pub
                  /\ advertiserState' = adv
                  /\ action' = a
                  /\ IF s = 0
                     THEN /\ result' = unexpectedState(adv, pub)
                          /\ runPc' = "done"
                          /\ UNCHANGED executed
                     ELSE IF s = 3 /\ ~output
                     THEN /\ result' = Nil
                          /\ runPc' = "done"
                          /\ UNCHANGED executed
                     ELSE enter(s)
    /\ UNCHANGED <<cleanroom, output, publisherData, err, objects, markers,
                   polls, dataRead, rwIndex>>
    /\ UNCHANGED <<engVars, matVars, listVars, resVars, cliVars, keyVars, waitVars>>

-----------------------------------------------------------------------------
\* The deferred functions of hashEncryt and reEncrypt

\* BucketReadWriter.Close: the read writers are closed in order, the reader
\* (when there is one) before the writer; the first failure returns.
\* k read writers close, then (k < n) the next one fails at kind.
closeResult(objs, k, kind) ==
    [i \in DOMAIN objs |->
        IF i <= k THEN [objs[i] EXCEPT !.closed = "closed"]
        ELSE IF i = k + 1 /\ kind = "writer" THEN [objs[i] EXCEPT !.closed = "failed"]
        ELSE objs[i]]

closeOutcomes(objs, hasReader) ==
    {closeResult(objs, Len(objs), "none")} \cup
    {closeResult(objs, k, kind) :
        k \in 0..(Len(objs) - 1),
        kind \in (IF hasReader THEN {"reader", "writer"} ELSE {"writer"})}

\* Mutant: the deferred completer does not look at err.
shouldComplete_always(e) == TRUE

\* The deferred completer: it returns at once when the step's err is set.
shouldComplete(e) == e = Nil

\* Mutant: the completer of step 2 is made for c.advTwicePath, like that of
\* step 1.
completerPath_advTwice(s) == "advTwice"

\* bucket.NewBucketCompleter(ctx, c.downscopedToken, <path>) of step s.
completerPath(s) == IF s = 1 THEN "advTwice" ELSE "pubTriple"

\* bucketCompleter.Complete succeeded or failed (a failure is logged only).
complete(loc) ==
    IF shouldComplete(err)
    THEN \E ok \in BOOLEAN : markers' = IF ok THEN markers \cup {loc} ELSE markers
    ELSE UNCHANGED markers

-----------------------------------------------------------------------------
\* Step 1: pairConfig.hashEncryt

hashEncryt ==
    /\ runPc = "hashEncryt"
    /\ \E fail \in {"none", "io.FileReaders", "bucket.NewBucketCompleter", "bucket.NewBucket"} :
         IF fail = "none"
         THEN /\ objects' = [objects EXCEPT !["advTwice"] = <<NewObject>>]
              /\ dataRead' = dataRead \cup {"input"}
              /\ err' = Nil
              /\ runPc' = "HashEncrypt"
              /\ UNCHANGED <<executed, result>>
         ELSE \* returns before the bucket is open: the completer, when it was
              \* deferred, finds err set
              /\ err' = <<fail, "failed">>
              /\ dataRead' = IF fail = "io.FileReaders" THEN dataRead ELSE dataRead \cup {"input"}
              /\ return(1, err')
              /\ UNCHANGED objects
    /\ UNCHANGED <<cleanroom, output, publisherData, publisherState, advertiserState,
                   action, markers, polls, rwIndex>>
    /\ UNCHANGED <<engVars, matVars, listVars, resVars, cliVars, keyVars, waitVars>>

hashEncryt_HashEncrypt ==
    /\ runPc = "HashEncrypt"
    /\ \E r \in EngineResults :
         IF r = Nil
         THEN /\ objects' = [objects EXCEPT !["advTwice"][1].content = "full"]
              /\ err' = Nil
         ELSE /\ \E c \in {"none", "partial"} :
                    objects' = [objects EXCEPT !["advTwice"][1].content = c]
              /\ err' = Wrap("pairRW.HashEncrypt", r)
    /\ runPc' = "hashEncryt_Close"
    /\ UNCHANGED <<cleanroom, output, publisherData, publisherState, advertiserState,
                   action, executed, markers, polls, dataRead, rwIndex, result>>
    /\ UNCHANGED <<engVars, matVars, listVars, resVars, cliVars, keyVars, waitVars>>

hashEncryt_Close ==
    /\ runPc = "hashEncryt_Close"
    /\ \E objs \in closeOutcomes(objects["advTwice"], FALSE) :
         objects' = [objects EXCEPT !["advTwice"] = objs]
    /\ runPc' = "hashEncryt_Complete"
    /\ UNCHANGED <<cleanroom, output, publisherData, publisherState, advertiserState,
                   action, executed, err, markers, polls, dataRead, rwIndex, result>>
    /\ UNCHANGED <<engVars, matVars, listVars, resVars, cliVars, keyVars, waitVars>>

hashEncryt_Complete ==
    /\ runPc = "hashEncryt_Complete"
    /\ complete(completerPath(1))
    /\ return(1, err)
    /\ UNCHANGED <<cleanroom, output, publisherData, publisherState, advertiserState,
                   action, err, objects, polls, dataRead, rwIndex>>
    /\ UNCHANGED <<engVars, matVars, listVars, resVars, cliVars, keyVars, waitVars>>

-----------------------------------------------------------------------------
\* Step 2: pairConfig.reEncrypt

\* NewBucketReadWriter with a source URL opens one read writer per listed
\* source object (n of them); then the local directory is created.
reEncrypt ==
    /\ runPc = "reEncrypt"
    /\ \E fail \in {"none", "bucket.NewBucketCompleter", "bucket.NewBucket"} \cup
                   (IF publisherData THEN {"io.CreateDirectory"} ELSE {}) :
       \E n \in 0..MaxObjects :
         IF fail \in {"bucket.NewBucketCompleter", "bucket.NewBucket"}
         THEN /\ err' = <<fail, "failed">>
              /\ dataRead' = IF fail = "bucket.NewBucket" THEN dataRead \cup {"pubTwice"} ELSE dataRead
              /\ return(2, err')
              /\ UNCHANGED <<objects, rwIndex>>
         ELSE /\ objects' = [objects EXCEPT !["pubTriple"] = [i \in 1..n |-> NewObject]]
              /\ dataRead' = dataRead \cup {"pubTwice"}
              /\ rwIndex' = 1
              /\ IF fail = "none"
                 THEN /\ err' = Nil
                      /\ runPc' = "ReEncrypt"
                 ELSE /\ err' = <<fail, "failed">>
                      /\ runPc' = "reEncrypt_Close"
              /\ UNCHANGED <<executed, result>>
    /\ UNCHANGED <<cleanroom, output, publisherData, publisherState, advertiserState,
                   action, markers, polls>>
    /\ UNCHANGED <<engVars, matVars, listVars, resVars, cliVars, keyVars, waitVars>>

\* One iteration of the loop over b.ReadWriters.
reEncrypt_ReEncrypt ==
    /\ runPc = "ReEncrypt"
    /\ IF rwIndex > Len(objects["pubTriple"])
       THEN /\ runPc' = "reEncrypt_Close"
            /\ UNCHANGED <<err, objects, rwIndex>>
       ELSE \E fileWriterFails \in (IF publisherData THEN BOOLEAN ELSE {FALSE}) :
            IF fileWriterFails
            THEN /\ err' = <<"io.FileWriter", "failed">>
                 /\ runPc' = "reEncrypt_Close"
                 /\ UNCHANGED <<objects, rwIndex>>
            ELSE \E r \in EngineResults :
                 IF r = Nil
                 THEN /\ objects' = [objects EXCEPT
                            !["pubTriple"][rwIndex].content = "full",
                            !["local"] = IF publisherData
                                         THEN Append(@, [content |-> "full", closed |-> "open"])
                                         ELSE @]
                      /\ rwIndex' = rwIndex + 1
                      /\ UNCHANGED <<err, runPc>>
                 ELSE /\ \E c \in {"none", "partial"} :
                            objects' = [objects EXCEPT
                                !["pubTriple"][rwIndex].content = c,
                                !["local"] = IF publisherData
                                             THEN Append(@, [content |-> c, closed |-> "open"])
                                             ELSE @]
                      /\ err' = Wrap("pairRW.ReEncrypt", r)
                      /\ runPc' = "reEncrypt_Close"
                      /\ UNCHANGED rwIndex
    /\ UNCHANGED <<cleanroom, output, publisherData, publisherState, advertiserState,
                   action, executed, markers, polls, dataRead, result>>
    /\ UNCHANGED <<engVars, matVars, listVars, resVars, cliVars, keyVars, waitVars>>

reEncrypt_Close ==
    /\ runPc = "reEncrypt_Close"
    /\ \E objs \in closeOutcomes(objects["pubTriple"], TRUE) :
         objects' = [objects EXCEPT !["pubTriple"] = objs]
    /\ runPc' = "reEncrypt_Complete"
    /\ UNCHANGED <<cleanroom, output, publisherData, publisherState, advertiserState,
                   action, executed, err, markers, polls, dataRead, rwIndex, result>>
    /\ UNCHANGED <<engVars, matVars, listVars, resVars, cliVars, keyVars, waitVars>>

reEncrypt_Complete ==
    /\ runPc = "reEncrypt_Complete"
    /\ complete(completerPath(2))
    /\ return(2, err)
    /\ UNCHANGED <<cleanroom, output, publisherData, publisherState, advertiserState,
                   action, err, objects, polls, dataRead, rwIndex>>
    /\ UNCHANGED <<engVars, matVars, listVars, resVars, cliVars, keyVars, waitVars>>

-----------------------------------------------------------------------------
\* Step 3: pairConfig.match, after cleanroomClient.ReadyForMatch

\* Mutant: ReadyForMatch also accepts a publisher that is still transforming.
readyStates_withTransforming ==
    {"DATA_TRANSFORMING", "DATA_TRANSFORMED", "RUNNING", "SUCCEEDED"}

\* The states ReadyForMatch passes to waitForState.
readyStates == {"DATA_TRANSFORMED", "RUNNING", "SUCCEEDED"}

\* waitForState: the publisher is the first participant of that role; a nil
\* publisher reads as the zero state.
firstPublisherState(cr) ==
    LET idx == {i \in DOMAIN cr : cr[i].role = "PUBLISHER"}
    IN  IF idx = {} THEN "STATE_UNSPECIFIED" ELSE cr[Min(idx)].state

\* case <-ticker.C of the select: waitForState calls GetCleanroom.
waitForState_tick ==
    /\ runPc = "match_wait"
    /\ ~pollPending
    /\ polls < MaxPolls
    /\ polls' = polls + 1
    /\ pollPending' = TRUE
    /\ UNCHANGED <<cleanroom, output, publisherData, runPc, publisherState,
                   advertiserState, action, executed, err, objects, markers,
                   dataRead, rwIndex, result, callerCtx>>
    /\ UNCHANGED <<engVars, matVars, listVars, resVars, cliVars, keyVars>>

\* The errors GetCleanroom can return to waitForState.
fetchErrors ==
    {<<"unexpected status code">>} \cup
    (IF callerCtx = Nil THEN {} ELSE {<<"Post">> \o callerCtx})

\* The GetCleanroom call of waitForState returns: its error is returned as it
\* is, else the publisher's state is compared with states.
waitForState_GetCleanroom ==
    /\ runPc = "match_wait"
    /\ pollPending
    /\ pollPending' = FALSE
    /\ \E ok \in BOOLEAN :
         IF ~ok
         THEN \E e \in fetchErrors :
                /\ err' = Wrap("failed to wait for publisher", e)
                /\ return(3, err')
         ELSE IF firstPublisherState(cleanroom) \in readyStates
         THEN /\ runPc' = "match"
              /\ UNCHANGED <<err, executed, result>>
         ELSE UNCHANGED <<err, runPc, executed, result>>
    /\ UNCHANGED <<cleanroom, output, publisherData, publisherState, advertiserState,
                   action, objects, markers, polls, dataRead, rwIndex, callerCtx>>
    /\ UNCHANGED <<engVars, matVars, listVars, resVars, cliVars, keyVars>>

\* case <-timer.C of the select: the one-hour timer has fired.
waitForState_timeout ==
    /\ runPc = "match_wait"
    /\ ~pollPending
    /\ err' = <<"failed to wait for publisher", "timeout after 1h0m0s">>
    /\ return(3, err')
    /\ UNCHANGED <<cleanroom, output, publisherData, publisherState, advertiserState,
                   action, objects, markers, polls, dataRead, rwIndex>>
    /\ UNCHANGED <<engVars, matVars, listVars, resVars, cliVars, keyVars, waitVars>>

\* case <-ctx.Done() of the select: waitForState returns ctx.Err().
waitForState_ctxDone ==
    /\ runPc = "match_wait"
    /\ ~pollPending
    /\ callerCtx # Nil
    /\ err' = Wrap("failed to wait for publisher", callerCtx)
    /\ return(3, err')
    /\ UNCHANGED <<cleanroom, output, publisherData, publisherState, advertiserState,
                   action, objects, markers, polls, dataRead, rwIndex>>
    /\ UNCHANGED <<engVars, matVars, listVars, resVars, cliVars, keyVars, waitVars>>

\* The context given to Run ends while Run waits (an end before the wait is
\* the same as one at its first moment).
callerCancel ==
    /\ runPc = "match_wait"
    /\ callerCtx = Nil
    /\ callerCtx' = Canceled
    /\ UNCHANGED <<cleanroom, output, publisherData, runPc, publisherState,
                   advertiserState, action, executed, err, objects, markers,
                   polls, dataRead, rwIndex, result, pollPending>>
    /\ UNCHANGED <<engVars, matVars, listVars, resVars, cliVars, keyVars>>

\* The remote service moves a publisher to a later state while Run waits
\* (a change made earlier is the same as one observed at the first tick).
PublisherAdvances ==
    /\ runPc = "match_wait"
    /\ \E i \in DOMAIN cleanroom : \E k \in 1..Len(States) :
         /\ cleanroom[i].role = "PUBLISHER"
         /\ \E j \in 1..(k - 1) : States[j] = cleanroom[i].state
         /\ cleanroom' = [cleanroom EXCEPT ![i].state = States[k]]
    /\ UNCHANGED <<output, publisherData, runPc, publisherState, advertiserState,
                   action, executed, err, objects, markers, polls, dataRead,
                   rwIndex, result>>
    /\ UNCHANGED <<engVars, matVars, listVars, resVars, cliVars, keyVars, waitVars>>

match ==
    /\ runPc = "match"
    /\ \E fail \in {"none", "os.MkdirAll", "bucket.NewBucket", "pair.NewMatcher"} \cup
                   (IF publisherData THEN {"io.FileReaders"} ELSE {}) :
         IF fail \in {"os.MkdirAll", "io.FileReaders"}
         THEN /\ err' = <<fail, "failed">>
              /\ UNCHANGED <<objects, dataRead>>
         ELSE /\ dataRead' = dataRead \cup {"advTriple"} \cup
                             (IF publisherData THEN {"local"} ELSE {"pubTriple"})
              /\ IF fail # "none"
                 THEN /\ err' = <<fail, "failed">>
                      /\ UNCHANGED objects
                 ELSE \E r \in MatchResults :
                      IF r = Nil
                      THEN /\ err' = Nil
                           /\ objects' = [objects EXCEPT !["output"] =
                                            <<[content |-> "full", closed |-> "closed"]>>]
                      ELSE /\ err' = Wrap("matcher.Match", r)
                           /\ objects' = [objects EXCEPT !["output"] =
                                            <<[content |-> "partial", closed |-> "open"]>>]
    /\ return(3, err')
    /\ UNCHANGED <<cleanroom, output, publisherData, publisherState, advertiserState,
                   action, markers, polls, rwIndex>>
    /\ UNCHANGED <<engVars, matVars, listVars, resVars, cliVars, keyVars, waitVars>>

-----------------------------------------------------------------------------
\* The transform engine: NewPAIRIDReadWriter, readPAIRIDs, runPAIROperation

batchSize == 1024
minimumIDCount == 1000

Operations == {"HashEncrypt", "ReEncrypt", "Decrypt"}

\* Input sizes around the threshold and around the batch boundaries: up to
\* MaxBatches full batches followed by a partial one.
InputSizes ==
    {0, 1, MaxShuffle, minimumIDCount - 1, minimumIDCount, batchSize} \cup
    {k * batchSize + 1 : k \in 1..MaxBatches}

\* A batch is a run of consecutive input records: n records from lo on.
NoBatch == [lo |-> 0, n |-> 0]
records(b) == b.lo .. (b.lo + b.n - 1)

Slots == 1..MaxProcs

\* Mutant: the number of workers is GOMAXPROCS whatever the caller asked for.
numWorkers_maxProcs == maxWorkers

\* numWorkers after the cap of runPAIROperation.
numWorkers == IF requested > maxWorkers THEN maxWorkers ELSE requested

\* The line logger.Warn writes when the cap is applied, Nil when it is not.
warning ==
    IF requested > maxWorkers
    THEN <<"Number of workers is limited to", maxWorkers>>
    ELSE Nil

\* A PAIR private key is made of a hash salt and a scalar; a PAIR id is the
\* salted hash of an identifier under a number of encryption layers, one
\* scalar each. The layers commute: only their number per scalar counts.
Salts == {"salt1", "salt2"}
Scalars == {"key1", "key2"}
PrivateKeys == Salts \X Scalars

\* pk.Encrypt: hashes the identifier with the salt and puts its layer on.
pkEncrypt(pk, x) ==
    [hashed |-> <<pk[1], x>>, layers |-> [k \in Scalars |-> IF k = pk[2] THEN 1 ELSE 0]]

\* pk.ReEncrypt: puts its layer on an encrypted id.
pkReEncrypt(pk, c) == [c EXCEPT !.layers[pk[2]] = @ + 1]

\* pk.Decrypt: takes its layer off.
pkDecrypt(pk, c) == [c EXCEPT !.layers[pk[2]] = @ - 1]

\* Mutant: the switch on op sets pk.ReEncrypt for OperationDecrypt.
do_decryptReEncrypts(o, pk, c) ==
    CASE o = "HashEncrypt" -> pkEncrypt(pk, c)
      [] o = "ReEncrypt" -> pkReEncrypt(pk, c)
      [] o = "Decrypt" -> pkReEncrypt(pk, c)

\* operation.do as the switch on op sets it, applied to a record.
do(o, pk, c) ==
    CASE o = "HashEncrypt" -> pkEncrypt(pk, c)
      [] o = "ReEncrypt" -> pkReEncrypt(pk, c)
      [] o = "Decrypt" -> pkDecrypt(pk, c)

\* The order of the n records of a batch, as their offsets in the batch. It
\* is followed for batches of up to MaxShuffle records.
InputOrder(n) == IF n > MaxShuffle THEN <<>> ELSE [k \in 1..n |-> k]

\* pair.Shuffle(ids): the ids are left in any order.
Shuffle(n) ==
    IF n > MaxShuffle
    THEN {<<>>}
    ELSE {p \in [1..n -> 1..n] : \A k, h \in 1..n : p[k] = p[h] => k = h}

\* The first k records of a batch held in order o.
firstOf(o, k) == IF o = <<>> THEN <<>> ELSE SubSeq(o, 1, k)

\* Mutant: the switch on op sets shuffle for HashEncrypt and not for ReEncrypt.
shuffle_onHashEncrypt == op = "HashEncrypt"

\* pairOps.shuffle as the switch on op sets it.
shuffle == op = "ReEncrypt"

alive == ~panicked

-----------------------------------------------------------------------------
\* readPAIRIDs

\* Mutant: the batch that is not full at io.EOF is not sent.
flushLast_never(n) == FALSE

\* At io.EOF the last batch is sent if len(ids) > 0.
flushLast(n) == n > 0

\* The loop of readPAIRIDs up to its next channel operation or return: it
\* reads until the batch is full, the stream ends or a line is malformed.
readPAIRIDs_read ==
    /\ alive
    /\ readerPc = "read"
    /\ LET remaining == inputLen - pos
           take == IF remaining >= batchSize THEN batchSize ELSE remaining
       IN \E malformed \in (IF take > 0 THEN BOOLEAN ELSE {FALSE}) :
          IF malformed
          THEN /\ readerErr' = <<"parse error">>
               /\ readerPc' = "close"
               /\ faulted' = TRUE
               /\ UNCHANGED <<pos, ids>>
          ELSE IF take = batchSize
          THEN /\ ids' = [lo |-> pos + 1, n |-> batchSize]
               /\ pos' = pos + batchSize
               /\ readerPc' = "send"
               /\ UNCHANGED <<readerErr, faulted>>
          ELSE /\ readerErr' = EOF
               /\ pos' = inputLen
               /\ ids' = IF flushLast(take) THEN [lo |-> pos + 1, n |-> take] ELSE NoBatch
               /\ readerPc' = IF flushLast(take) THEN "sendLast" ELSE "close"
               /\ UNCHANGED faulted
    /\ UNCHANGED <<inputLen, op, keyOk, requested, maxWorkers, read, batch,
                   batchClosed, mainPc, done, doneClosed, errChan, errChanClosed,
                   once, ctxErr, gErr, wpc, wids, werr, writeLock, written, out,
                   panicked, checks, opResult>>
    /\ UNCHANGED <<runVars, matVars, firstFailure, worder, secondary, out2, signals, sent>>

\* case p.batch <- ids of the select (the reader's own context is cancelled
\* only by its deferred cancel, so the other case is never ready).
readPAIRIDs_send ==
    /\ alive
    /\ readerPc = "send"
    /\ Len(batch) < batchSize
    /\ batch' = Append(batch, ids)
    /\ sent' = Append(sent, ids)
    /\ read' = read + batchSize
    /\ ids' = NoBatch
    /\ readerPc' = "read"
    /\ UNCHANGED <<inputLen, op, keyOk, requested, maxWorkers, pos, readerErr,
                   batchClosed, mainPc, done, doneClosed, errChan, errChanClosed,
                   once, ctxErr, gErr, wpc, wids, werr, writeLock, written, out,
                   panicked, checks, faulted, opResult>>
    /\ UNCHANGED <<runVars, matVars, firstFailure, worder, secondary, out2, signals>>

\* The last, partial batch at io.EOF.
readPAIRIDs_sendLast ==
    /\ alive
    /\ readerPc = "sendLast"
    /\ Len(batch) < batchSize
    /\ batch' = Append(batch, ids)
    /\ sent' = Append(sent, ids)
    /\ read' = read + ids.n
    /\ ids' = NoBatch
    /\ readerPc' = "close"
    /\ UNCHANGED <<inputLen, op, keyOk, requested, maxWorkers, pos, readerErr,
                   batchClosed, mainPc, done, doneClosed, errChan, errChanClosed,
                   once, ctxErr, gErr, wpc, wids, werr, writeLock, written, out,
                   panicked, checks, faulted, opResult>>
    /\ UNCHANGED <<runVars, matVars, firstFailure, worder, secondary, out2, signals>>

\* The deferred close(p.batch).
readPAIRIDs_close ==
    /\ alive
    /\ readerPc = "close"
    /\ batchClosed' = TRUE
    /\ readerPc' = "returned"
    /\ UNCHANGED <<inputLen, op, keyOk, requested, maxWorkers, pos, ids, read,
                   readerErr, batch, mainPc, done, doneClosed, errChan,
                   errChanClosed, once, ctxErr, gErr, wpc, wids, werr, writeLock,
                   written, out, panicked, checks, faulted, opResult>>
    /\ UNCHANGED <<runVars, matVars, firstFailure, worder, secondary, out2, signals, sent>>

-----------------------------------------------------------------------------
\* runPAIROperation: the loop of the caller

\* Mutant: the done case does not wait for the workers.
allWorkersReturned_noWait == TRUE

\* g.Wait() returns when every goroutine of the group has returned.
allWorkersReturned == \A i \in Slots : wpc[i] = "idle"

\* Mutant: the comparison with minimumIDCount is <= instead of <.
belowThreshold_orEqual(n) == n <= minimumIDCount

\* p.reader.read.Load() < minimumIDCount
belowThreshold(n) == n < minimumIDCount

\* A case of the select other than default is ready.
selectReady == errChan # <<>> \/ done > 0 \/ ctxErr # Nil

\* The deferred cancel() of runPAIROperation.
cancelled(e) == IF e = Nil THEN Canceled ELSE e

\* case err := <-errChan
runPAIROperation_errChan ==
    /\ alive
    /\ mainPc = "select"
    /\ errChan # <<>>
    /\ opResult' = Head(errChan)
    /\ errChan' = Tail(errChan)
    /\ doneClosed' = TRUE
    /\ errChanClosed' = TRUE
    /\ ctxErr' = cancelled(ctxErr)
    /\ mainPc' = "returned"
    /\ UNCHANGED <<inputLen, op, keyOk, requested, maxWorkers, readerPc, pos,
                  ids, read, readerErr, batch, batchClosed, done, once, gErr,
                  wpc, wids, werr, writeLock, written, out, panicked, checks,
                  faulted>>
    /\ UNCHANGED <<runVars, matVars, firstFailure, worder, secondary, out2, signals, sent>>

\* case <-done, up to the call of g.Wait()
runPAIROperation_done ==
    /\ alive
    /\ mainPc = "select"
    /\ done > 0
    /\ done' = 0
    /\ mainPc' = "Wait"
    /\ UNCHANGED <<inputLen, op, keyOk, requested, maxWorkers, readerPc, pos,
                  ids, read, readerErr, batch, batchClosed, doneClosed,
                  errChan, errChanClosed, once, ctxErr, gErr, wpc, wids, werr,
                  writeLock, written, out, panicked, checks, faulted,
                  opResult>>
    /\ UNCHANGED <<runVars, matVars, firstFailure, worder, secondary, out2, signals, sent>>

\* g.Wait() returns; then close(done), the threshold check and the return.
runPAIROperation_Wait ==
    /\ alive
    /\ mainPc = "Wait"
    /\ allWorkersReturned
    /\ IF gErr # Nil
       THEN /\ opResult' = Wrap("g.Wait", gErr)
            /\ UNCHANGED <<doneClosed, checks>>
       ELSE /\ doneClosed' = TRUE
            /\ checks' = checks + 1
            /\ opResult' = IF belowThreshold(read) THEN ErrInputBelowThreshold ELSE Nil
    /\ ctxErr' = cancelled(ctxErr)
    /\ mainPc' = "returned"
    /\ UNCHANGED <<inputLen, op, keyOk, requested, maxWorkers, readerPc, pos,
                  ids, read, readerErr, batch, batchClosed, done, errChan,
                  errChanClosed, once, gErr, wpc, wids, werr, writeLock,
                  written, out, panicked, faulted>>
    /\ UNCHANGED <<runVars, matVars, firstFailure, worder, secondary, out2, signals, sent>>

\* case <-ctx.Done()
runPAIROperation_ctxDone ==
    /\ alive
    /\ mainPc = "select"
    /\ ctxErr # Nil
    /\ opResult' = ctxErr
    /\ mainPc' = "returned"
    /\ UNCHANGED <<inputLen, op, keyOk, requested, maxWorkers, readerPc, pos,
                  ids, read, readerErr, batch, batchClosed, done, doneClosed,
                  errChan, errChanClosed, once, ctxErr, gErr, wpc, wids, werr,
                  writeLock, written, out, panicked, checks, faulted>>
    /\ UNCHANGED <<runVars, matVars, firstFailure, worder, secondary, out2, signals, sent>>

\* default: no other case is ready; g.Go is called.
runPAIROperation_default ==
    /\ alive
    /\ mainPc = "select"
    /\ ~selectReady
    /\ mainPc' = "Go"
    /\ UNCHANGED <<inputLen, op, keyOk, requested, maxWorkers, readerPc, pos,
                  ids, read, readerErr, batch, batchClosed, done, doneClosed,
                  errChan, errChanClosed, once, ctxErr, gErr, wpc, wids, werr,
                  writeLock, written, out, panicked, checks, faulted,
                  opResult>>
    /\ UNCHANGED <<runVars, matVars, firstFailure, worder, secondary, out2, signals, sent>>

\* g.Go returns once fewer than numWorkers goroutines of the group are active
\* (SetLimit); the new goroutine takes the lowest free slot.
runPAIROperation_Go ==
    /\ alive
    /\ mainPc = "Go"
    /\ \E i \in 1..numWorkers :
         /\ wpc[i] = "idle"
         /\ \A j \in 1..(i - 1) : wpc[j] # "idle"
         /\ wpc' = [wpc EXCEPT ![i] = "start"]
    /\ mainPc' = "select"
    /\ UNCHANGED <<inputLen, op, keyOk, requested, maxWorkers, readerPc, pos,
                  ids, read, readerErr, batch, batchClosed, done, doneClosed,
                  errChan, errChanClosed, once, ctxErr, gErr, wids, werr,
                  writeLock, written, out, panicked, checks, faulted,
                  opResult>>
    /\ UNCHANGED <<runVars, matVars, firstFailure, worder, secondary, out2, signals, sent>>

\* The deadline of maxOperationRunTime passes. The contexts of the callers
\* derive from context.Background() and are never cancelled.
ctxTimeout ==
    /\ alive
    /\ mainPc # "returned"
    /\ ctxErr = Nil
    /\ ctxErr' = DeadlineExceeded
    /\ faulted' = TRUE
    /\ UNCHANGED <<inputLen, op, keyOk, requested, maxWorkers, readerPc, pos,
                  ids, read, readerErr, batch, batchClosed, mainPc, done,
                  doneClosed, errChan, errChanClosed, once, gErr, wpc, wids,
                  werr, writeLock, written, out, panicked, checks, opResult>>
    /\ UNCHANGED <<runVars, matVars, firstFailure, worder, secondary, out2, signals, sent>>

-----------------------------------------------------------------------------
\* The goroutine of g.Go, in slot i

\* The goroutine in slot i got an error to report: the first such error of the
\* call is remembered.
recordFailure(i) ==
    firstFailure' = IF firstFailure = Nil /\ werr[i] = Nil THEN werr'[i] ELSE firstFailure

\* keys.NewPAIRPrivateKey and the switch on op.
worker_start(i) ==
    /\ alive
    /\ wpc[i] = "start"
    /\ IF keyOk
       THEN /\ wpc' = [wpc EXCEPT ![i] = "operate"]
            /\ UNCHANGED werr
       ELSE /\ werr' = [werr EXCEPT ![i] = <<"NewPAIRPrivateKey", "invalid key">>]
            /\ wpc' = [wpc EXCEPT ![i] = "sendErr"]
    /\ UNCHANGED <<inputLen, op, keyOk, requested, maxWorkers, readerPc, pos,
                  ids, read, readerErr, batch, batchClosed, mainPc, done,
                  doneClosed, errChan, errChanClosed, once, ctxErr, gErr,
                  wids, writeLock, written, out, panicked, checks, faulted,
                  opResult>>
    /\ recordFailure(i)
    /\ UNCHANGED <<runVars, matVars, worder, secondary, out2, signals, sent>>

\* operate: ids, ok := <-p.reader.batch
operate_receive(i) ==
    /\ alive
    /\ wpc[i] = "operate"
    /\ IF batch # <<>>
       THEN /\ wids' = [wids EXCEPT ![i] = Head(batch)]
            /\ batch' = Tail(batch)
            /\ wpc' = [wpc EXCEPT ![i] = "transform"]
            /\ UNCHANGED werr
       ELSE /\ batchClosed
            /\ IF isEOF(readerErr)
               THEN /\ wpc' = [wpc EXCEPT ![i] = "once"]
                    /\ UNCHANGED werr
               ELSE /\ werr' = [werr EXCEPT ![i] = Wrap("p.Operate", readerErr)]
                    /\ wpc' = [wpc EXCEPT ![i] = "sendErr"]
            /\ UNCHANGED <<wids, batch>>
    /\ UNCHANGED <<inputLen, op, keyOk, requested, maxWorkers, readerPc, pos,
                  ids, read, readerErr, batchClosed, mainPc, done, doneClosed,
                  errChan, errChanClosed, once, ctxErr, gErr, writeLock,
                  written, out, panicked, checks, faulted, opResult>>
    /\ recordFailure(i)
    /\ UNCHANGED <<runVars, matVars, worder, secondary, out2, signals, sent>>

\* operate: the shuffle and the loop calling op.do on every id of the batch;
\* op.do fails on a record or on none.
operate_transform(i) ==
    /\ alive
    /\ wpc[i] = "transform"
    /\ \E bad \in BOOLEAN :
       \E o \in (IF shuffle THEN Shuffle(wids[i].n) ELSE {InputOrder(wids[i].n)}) :
         IF bad
         THEN /\ werr' = [werr EXCEPT ![i] = <<"p.Operate", "encrypt", "invalid ciphertext">>]
              /\ wids' = [wids EXCEPT ![i] = NoBatch]
              /\ worder' = [worder EXCEPT ![i] = <<>>]
              /\ wpc' = [wpc EXCEPT ![i] = "sendErr"]
              /\ faulted' = TRUE
         ELSE /\ wpc' = [wpc EXCEPT ![i] = "lock"]
              /\ worder' = [worder EXCEPT ![i] = o]
              /\ UNCHANGED <<werr, wids, faulted>>
    /\ UNCHANGED <<inputLen, op, keyOk, requested, maxWorkers, readerPc, pos,
                  ids, read, readerErr, batch, batchClosed, mainPc, done,
                  doneClosed, errChan, errChanClosed, once, ctxErr, gErr,
                  writeLock, written, out, panicked, checks, opResult>>
    /\ recordFailure(i)
    /\ UNCHANGED <<runVars, matVars, secondary, out2, signals, sent>>

\* Mutant: Lock does not wait for the holder of the lock.
lockFree_always == TRUE

\* sync.Mutex: Lock returns when no goroutine holds the lock.
lockFree == writeLock = 0

\* operate: p.writeLock.Lock()
operate_lock(i) ==
    /\ alive
    /\ wpc[i] = "lock"
    /\ lockFree
    /\ writeLock' = i
    /\ wpc' = [wpc EXCEPT ![i] = "write"]
    /\ UNCHANGED <<inputLen, op, keyOk, requested, maxWorkers, readerPc, pos,
                  ids, read, readerErr, batch, batchClosed, mainPc, done,
                  doneClosed, errChan, errChanClosed, once, ctxErr, gErr,
                  wids, werr, written, out, panicked, checks, faulted,
                  opResult>>
    /\ UNCHANGED <<runVars, matVars, firstFailure, worder, secondary, out2, signals, sent>>

\* The first k records of the batch held by slot i, as a chunk of the sink.
chunkOf(i, k) ==
    [lo |-> wids[i].lo, n |-> k, op |-> op, shuffled |-> shuffle,
     order |-> IF k = wids[i].n THEN worder[i] ELSE firstOf(worder[i], k)]

\* The records had+1..k of the batch held by slot i, as a chunk of its own.
restOf(i, had, k) ==
    [lo |-> wids[i].lo + had, n |-> k - had, op |-> op, shuffled |-> shuffle,
     order |-> IF worder[i] = <<>> THEN <<>> ELSE SubSeq(worder[i], had + 1, k)]

\* A sink o after the records had+1..k of the batch of slot i are written to
\* it: they follow the first had records when these are the last thing on
\* the sink, and start a chunk of their own otherwise.
put(o, i, had, k) ==
    IF k = had THEN o
    ELSE IF had = 0 THEN Append(o, chunkOf(i, k))
    ELSE IF o # <<>> /\ o[Len(o)] = chunkOf(i, had)
         THEN [o EXCEPT ![Len(o)] = chunkOf(i, k)]
         ELSE Append(o, restOf(i, had, k))

\* Mutant: the secondary writer option is dropped, w stays the primary writer.
multiWrite_primaryOnly(o2, c) == o2

\* io.MultiWriter(w, rwOpt.secondaryWriter): what reaches the primary writer
\* is written to the secondary writer too, when there is one; c is the
\* secondary sink with these records.
multiWrite(o2, c) == IF secondary THEN c ELSE o2

\* The records of the batch that reached the sink before the end of
\* WriteAll: none, or all but the last one.
partOf(i) == IF wpc[i] = "flush" THEN wids[i].n - 1 ELSE 0

\* operate: p.w.WriteAll(records), first part.  csv.Writer buffers the
\* records and writes them to the sink whenever its buffer is full: records
\* of a batch reach the sink before WriteAll flushes the rest.
operate_write_part(i) ==
    /\ alive
    /\ wpc[i] = "write"
    /\ wids[i].n > 1
    /\ out' = put(out, i, 0, wids[i].n - 1)
    /\ out2' = multiWrite(out2, put(out2, i, 0, wids[i].n - 1))
    /\ wpc' = [wpc EXCEPT ![i] = "flush"]
    /\ UNCHANGED <<inputLen, op, keyOk, requested, maxWorkers, readerPc, pos,
                  ids, read, readerErr, batch, batchClosed, mainPc, done,
                  doneClosed, errChan, errChanClosed, once, ctxErr, gErr,
                  wids, werr, writeLock, written, panicked, checks, faulted,
                  opResult>>
    /\ UNCHANGED <<runVars, matVars, firstFailure, worder, secondary, signals, sent>>

\* operate: the end of WriteAll (its Flush), written.Add and the deferred
\* Unlock.  A failing WriteAll leaves a part of the batch on the sink; the
\* secondary writer is written after the primary one, so it holds as much
\* (the primary failed later) or less of it (the secondary failed).
operate_write(i) ==
    /\ alive
    /\ wpc[i] \in {"write", "flush"}
    /\ \E fails \in BOOLEAN :
         IF ~fails
         THEN /\ out' = put(out, i, partOf(i), wids[i].n)
              /\ out2' = multiWrite(out2, put(out2, i, partOf(i), wids[i].n))
              /\ written' = written + wids[i].n
              /\ wpc' = [wpc EXCEPT ![i] = "idle"]
              /\ UNCHANGED <<werr, faulted>>
         ELSE /\ \E k \in {partOf(i), wids[i].n - 1} : \E k2 \in {partOf(i), k} :
                    /\ out' = put(out, i, partOf(i), k)
                    /\ out2' = multiWrite(out2, put(out2, i, partOf(i), k2))
              /\ werr' = [werr EXCEPT ![i] = <<"p.Operate", "w.WriteAll", "write error">>]
              /\ wpc' = [wpc EXCEPT ![i] = "sendErr"]
              /\ faulted' = TRUE
              /\ UNCHANGED written
    /\ wids' = [wids EXCEPT ![i] = NoBatch]
    /\ worder' = [worder EXCEPT ![i] = <<>>]
    /\ writeLock' = 0
    /\ UNCHANGED <<inputLen, op, keyOk, requested, maxWorkers, readerPc, pos,
                  ids, read, readerErr, batch, batchClosed, mainPc, done,
                  doneClosed, errChan, errChanClosed, once, ctxErr, gErr,
                  panicked, checks, opResult>>
    /\ recordFailure(i)
    /\ UNCHANGED <<runVars, matVars, secondary, signals, sent>>

\* Mutant: the send on done is made by every goroutine that gets io.EOF.
onceDo_always(o) == TRUE

\* once.Do(f) calls f when no call of once.Do has been made before.
onceDo(o) == ~o

\* errors.Is(err, io.EOF): once.Do(func() { done <- struct{}{} }); return nil
\* The send blocks while the buffer of done (capacity 1) is full and panics
\* when done is closed.
worker_once(i) ==
    /\ alive
    /\ wpc[i] = "once"
    /\ IF ~onceDo(once)
       THEN UNCHANGED <<once, done, panicked, signals>>
       ELSE /\ once' = TRUE
            /\ IF doneClosed
               THEN /\ panicked' = TRUE
                    /\ UNCHANGED <<done, signals>>
               ELSE /\ done < 1
                    /\ done' = done + 1
                    /\ signals' = signals + 1
                    /\ UNCHANGED panicked
    /\ wpc' = [wpc EXCEPT ![i] = "idle"]
    /\ UNCHANGED <<inputLen, op, keyOk, requested, maxWorkers, readerPc, pos,
                  ids, read, readerErr, batch, batchClosed, mainPc,
                  doneClosed, errChan, errChanClosed, ctxErr, gErr, wids,
                  werr, writeLock, written, out, checks, faulted, opResult>>
    /\ UNCHANGED <<runVars, matVars, firstFailure, worder, secondary, out2, sent>>

\* errChan <- err: blocks while the buffer (capacity 1) is full, panics when
\* the channel is closed.
worker_sendErr(i) ==
    /\ alive
    /\ wpc[i] = "sendErr"
    /\ IF errChanClosed
       THEN /\ panicked' = TRUE
            /\ UNCHANGED <<errChan, wpc>>
       ELSE /\ Len(errChan) < 1
            /\ errChan' = Append(errChan, werr[i])
            /\ wpc' = [wpc EXCEPT ![i] = "returnErr"]
            /\ UNCHANGED panicked
    /\ UNCHANGED <<inputLen, op, keyOk, requested, maxWorkers, readerPc, pos,
                  ids, read, readerErr, batch, batchClosed, mainPc, done,
                  doneClosed, errChanClosed, once, ctxErr, gErr, wids, werr,
                  writeLock, written, out, checks, faulted, opResult>>
    /\ UNCHANGED <<runVars, matVars, firstFailure, worder, secondary, out2, signals, sent>>

\* return err: the errgroup keeps the first error and cancels its context.
worker_returnErr(i) ==
    /\ alive
    /\ wpc[i] = "returnErr"
    /\ gErr' = IF gErr = Nil THEN werr[i] ELSE gErr
    /\ ctxErr' = cancelled(ctxErr)
    /\ werr' = [werr EXCEPT ![i] = Nil]
    /\ wpc' = [wpc EXCEPT ![i] = "idle"]
    /\ UNCHANGED <<inputLen, op, keyOk, requested, maxWorkers, readerPc, pos,
                  ids, read, readerErr, batch, batchClosed, mainPc, done,
                  doneClosed, errChan, errChanClosed, once, wids, writeLock,
                  written, out, panicked, checks, faulted, opResult>>
    /\ UNCHANGED <<runVars, matVars, firstFailure, worder, secondary, out2, signals, sent>>

-----------------------------------------------------------------------------
\* The matcher: NewMatcher and Matcher.Match

\* The triple-encrypted identifiers of the two inputs, as the strings the
\* CSV readers return.
IDs == 1..MaxIDs

SeqsUpTo(S, n) == UNION {[1..k -> S] : k \in 0..n}

\* adv []io.Reader: one stream per advertiser file.
AdvInputs == UNION {[1..k -> SeqsUpTo(IDs, MaxAdvLen)] : k \in 1..MaxAdvStreams}

PubPatterns == SeqsUpTo(IDs, 2) \ {<<>>}

\* Lengths of io.MultiReader(pub...): empty, within a batch, over a batch.
PubSizes == {0, 3, batchSize + 1}

\* record[0] of the r-th record of the publisher stream.
pubID(r) == pubPattern[((r - 1) % Len(pubPattern)) + 1]

\* Mutant: the consumer writes the matched id as it received it.
Decrypt_notApplied(id) == [id |-> id, key |-> "advertiser and publisher"]

\* pk.Decrypt removes the advertiser's layer of a triple-encrypted id: what
\* is left is the id under the publisher's key.
Decrypt(id) == [id |-> id, key |-> "publisher"]

Readers == DOMAIN advStreams

\* errgroup: the first error a goroutine returns is kept and cancels ctx.
firstErr(e) ==
    /\ gErr' = IF gErr = Nil THEN e ELSE gErr
    /\ ctxErr' = IF ctxErr = Nil THEN Canceled ELSE ctxErr

\* One turn of the loop of an advertiser reader goroutine of NewMatcher.
NewMatcher_read(i) ==
    /\ i \in Readers
    /\ matchPc = "NewMatcher"
    /\ advPc[i] = "read"
    /\ IF newCtxErr # Nil
       THEN /\ advPc' = [advPc EXCEPT ![i] = "returned"]
            /\ UNCHANGED <<advPos, maps, advRead, newCtxErr, newErr>>
       ELSE IF advPos[i] = Len(advStreams[i])
       THEN /\ advPc' = [advPc EXCEPT ![i] = "returned"]
            /\ UNCHANGED <<advPos, maps, advRead, newCtxErr, newErr>>
       ELSE \E malformed \in BOOLEAN :
            IF malformed
            THEN /\ advPc' = [advPc EXCEPT ![i] = "returned"]
                 /\ newErr' = IF newErr = Nil THEN <<"parse error">> ELSE newErr
                 /\ newCtxErr' = Canceled
                 /\ UNCHANGED <<advPos, maps, advRead>>
            ELSE /\ advRead' = advRead + 1
                 /\ maps' = [maps EXCEPT ![i] = @ \cup {advStreams[i][advPos[i] + 1]}]
                 /\ advPos' = [advPos EXCEPT ![i] = @ + 1]
                 /\ UNCHANGED <<advPc, newCtxErr, newErr>>
    /\ UNCHANGED <<inputLen, op, keyOk, requested, maxWorkers, readerPc, pos,
                  ids, read, readerErr, batch, batchClosed, mainPc, done,
                  doneClosed, errChan, errChanClosed, once, ctxErr, gErr, wpc,
                  wids, werr, writeLock, written, out, panicked, checks,
                  faulted, opResult, advStreams, pubPattern, hashMap, matchPc,
                  prodPc, prodBatch, cursor, intersected, intersectedClosed,
                  cpc, wsnap, wbuf, files, writers, mWritten, forwarded,
                  matchResult>>
    /\ UNCHANGED <<runVars, firstFailure, worder, secondary, out2, signals, sent>>

\* Mutant: only the map of the last advertiser stream is kept.
combined_lastOnly == maps[Len(maps)]

\* for _, im := range maps { for k := range im { m.hashMap[k] = struct{}{} } }
combined == UNION {maps[i] : i \in Readers}

\* g.Wait() of NewMatcher and what follows it: the error, or the merge of
\* the maps into m.hashMap.
NewMatcher_Wait ==
    /\ matchPc = "NewMatcher"
    /\ \A i \in Readers : advPc[i] = "returned"
    /\ IF newErr # Nil
       THEN /\ matchResult' = newErr
            /\ matchPc' = "returned"
            /\ UNCHANGED <<hashMap, maps>>
       ELSE /\ hashMap' = combined
            /\ maps' = [i \in Readers |-> {}]
            /\ matchPc' = "Match"
            /\ UNCHANGED matchResult
    /\ UNCHANGED <<inputLen, op, keyOk, requested, maxWorkers, readerPc, pos,
                  ids, read, readerErr, batch, batchClosed, mainPc, done,
                  doneClosed, errChan, errChanClosed, once, ctxErr, gErr, wpc,
                  wids, werr, writeLock, written, out, panicked, checks,
                  faulted, opResult, advStreams, pubPattern, advPc, advPos,
                  advRead, newCtxErr, newErr, prodPc, prodBatch, cursor,
                  intersected, intersectedClosed, cpc, wsnap, wbuf, files,
                  writers, mWritten, forwarded>>
    /\ UNCHANGED <<runVars, firstFailure, worder, secondary, out2, signals, sent>>

\* Matcher.Match up to g.Wait(): the cap on numWorkers, the key, and the
\* start of the producer and of the consumers.
Match ==
    /\ matchPc = "Match"
    /\ IF ~keyOk
       THEN /\ matchResult' = Wrap("NewPAIRPrivateKey", <<"invalid key">>)
            /\ matchPc' = "returned"
            /\ UNCHANGED <<prodPc, cpc>>
       ELSE /\ matchPc' = "Wait"
            /\ prodPc' = "range"
            /\ cpc' = [i \in Slots |-> IF i <= numWorkers THEN "NewWriter" ELSE "idle"]
            /\ UNCHANGED matchResult
    /\ UNCHANGED <<inputLen, op, keyOk, requested, maxWorkers, readerPc, pos,
                  ids, read, readerErr, batch, batchClosed, mainPc, done,
                  doneClosed, errChan, errChanClosed, once, ctxErr, gErr, wpc,
                  wids, werr, writeLock, written, out, panicked, checks,
                  faulted, opResult, advStreams, pubPattern, advPc, advPos,
                  maps, advRead, newCtxErr, newErr, hashMap, prodBatch,
                  cursor, intersected, intersectedClosed, wsnap, wbuf, files,
                  writers, mWritten, forwarded>>
    /\ UNCHANGED <<runVars, firstFailure, worder, secondary, out2, signals, sent>>

\* context.WithTimeout(ctx, maxOperationRunTime) expires.
Match_timeout ==
    /\ matchPc = "Wait"
    /\ ctxErr = Nil
    /\ ctxErr' = DeadlineExceeded
    /\ UNCHANGED <<inputLen, op, keyOk, requested, maxWorkers, readerPc, pos,
                  ids, read, readerErr, batch, batchClosed, mainPc, done,
                  doneClosed, errChan, errChanClosed, once, gErr, wpc, wids,
                  werr, writeLock, written, out, panicked, checks, faulted,
                  opResult, advStreams, pubPattern, advPc, advPos, maps,
                  advRead, newCtxErr, newErr, hashMap, matchPc, prodPc,
                  prodBatch, cursor, intersected, intersectedClosed, cpc,
                  wsnap, wbuf, files, writers, mWritten, forwarded,
                  matchResult>>
    /\ UNCHANGED <<runVars, firstFailure, worder, secondary, out2, signals, sent>>

\* The producer takes the next batch off m.reader.batch, or leaves the loop
\* when the channel is closed and drained; the deferred close follows.
producer_range ==
    /\ prodPc = "range"
    /\ IF batch # <<>>
       THEN /\ batch' = Tail(batch)
            /\ IF ctxErr # Nil
               THEN /\ firstErr(ctxErr)
                    /\ intersectedClosed' = TRUE
                    /\ prodPc' = "returned"
                    /\ UNCHANGED <<prodBatch, cursor>>
               ELSE /\ prodBatch' = Head(batch)
                    /\ cursor' = Head(batch).lo
                    /\ prodPc' = "scan"
                    /\ UNCHANGED <<gErr, ctxErr, intersectedClosed>>
       ELSE /\ batchClosed
            /\ intersectedClosed' = TRUE
            /\ prodPc' = "returned"
            /\ UNCHANGED <<batch, gErr, ctxErr, prodBatch, cursor>>
    /\ UNCHANGED <<inputLen, op, keyOk, requested, maxWorkers, readerPc, pos,
                  ids, read, readerErr, batchClosed, mainPc, done, doneClosed,
                  errChan, errChanClosed, once, wpc, wids, werr, writeLock,
                  written, out, panicked, checks, faulted, opResult,
                  advStreams, pubPattern, advPc, advPos, maps, advRead,
                  newCtxErr, newErr, hashMap, matchPc, intersected, cpc,
                  wsnap, wbuf, files, writers, mWritten, forwarded,
                  matchResult>>
    /\ UNCHANGED <<runVars, firstFailure, worder, secondary, out2, signals, sent>>

\* Mutant: the producer leaves a matched id in the map.
matchedRemoved_kept(id) == hashMap

\* delete(m.hashMap, string(id))
matchedRemoved(id) == hashMap \ {id}

\* The inner loop of the producer up to its next send: it skips the ids that
\* are not in the map, deletes the first that is and sends it.
producer_scan ==
    /\ prodPc = "scan"
    /\ LET hits == {r \in cursor .. (prodBatch.lo + prodBatch.n - 1) :
                        pubID(r) \in hashMap}
       IN IF hits = {}
          THEN /\ prodPc' = "range"
               /\ prodBatch' = NoBatch
               /\ UNCHANGED <<hashMap, intersected, forwarded, cursor>>
          ELSE LET r == CHOOSE x \in hits : \A y \in hits : x <= y
               IN /\ Len(intersected) < batchSize
                  /\ hashMap' = matchedRemoved(pubID(r))
                  /\ intersected' = Append(intersected, pubID(r))
                  /\ forwarded' = Append(forwarded, pubID(r))
                  /\ cursor' = r + 1
                  /\ UNCHANGED <<prodPc, prodBatch>>
    /\ UNCHANGED <<inputLen, op, keyOk, requested, maxWorkers, readerPc, pos,
                  ids, read, readerErr, batch, batchClosed, mainPc, done,
                  doneClosed, errChan, errChanClosed, once, ctxErr, gErr, wpc,
                  wids, werr, writeLock, written, out, panicked, checks,
                  faulted, opResult, advStreams, pubPattern, advPc, advPos,
                  maps, advRead, newCtxErr, newErr, matchPc,
                  intersectedClosed, cpc, wsnap, wbuf, files, writers,
                  mWritten, matchResult>>
    /\ UNCHANGED <<runVars, firstFailure, worder, secondary, out2, signals, sent>>

\* writer.NewWriter up to the append: os.Create, and the read of w.writers
\* that the append starts with.
consumer_NewWriter(i) ==
    /\ cpc[i] = "NewWriter"
    /\ \E failed \in BOOLEAN :
       IF failed
       THEN /\ firstErr(<<"create error">>)
            /\ cpc' = [cpc EXCEPT ![i] = "returned"]
            /\ UNCHANGED wsnap
       ELSE /\ wsnap' = [wsnap EXCEPT ![i] = writers]
            /\ cpc' = [cpc EXCEPT ![i] = "append"]
            /\ UNCHANGED <<gErr, ctxErr>>
    /\ UNCHANGED <<inputLen, op, keyOk, requested, maxWorkers, readerPc, pos,
                  ids, read, readerErr, batch, batchClosed, mainPc, done,
                  doneClosed, errChan, errChanClosed, once, wpc, wids, werr,
                  writeLock, written, out, panicked, checks, faulted,
                  opResult, advStreams, pubPattern, advPc, advPos, maps,
                  advRead, newCtxErr, newErr, hashMap, matchPc, prodPc,
                  prodBatch, cursor, intersected, intersectedClosed, wbuf,
                  files, writers, mWritten, forwarded, matchResult>>
    /\ UNCHANGED <<runVars, firstFailure, worder, secondary, out2, signals, sent>>

\* w.writers = append(w.writers, f): the store of the slice read before. The
\* consumers share w.writers without a lock.
consumer_append(i) ==
    /\ cpc[i] = "append"
    /\ writers' = Append(wsnap[i], i)
    /\ cpc' = [cpc EXCEPT ![i] = "range"]
    /\ UNCHANGED <<inputLen, op, keyOk, requested, maxWorkers, readerPc, pos,
                  ids, read, readerErr, batch, batchClosed, mainPc, done,
                  doneClosed, errChan, errChanClosed, once, ctxErr, gErr, wpc,
                  wids, werr, writeLock, written, out, panicked, checks,
                  faulted, opResult, advStreams, pubPattern, advPc, advPos,
                  maps, advRead, newCtxErr, newErr, hashMap, matchPc, prodPc,
                  prodBatch, cursor, intersected, intersectedClosed, wsnap,
                  wbuf, files, mWritten, forwarded, matchResult>>
    /\ UNCHANGED <<runVars, firstFailure, worder, secondary, out2, signals, sent>>

\* One turn of the loop of a consumer: it takes an id off m.intersected and
\* decrypts and writes it, or flushes when the channel is closed and drained.
consumer_range(i) ==
    /\ cpc[i] = "range"
    /\ IF intersected # <<>>
       THEN /\ intersected' = Tail(intersected)
            /\ IF ctxErr # Nil
               THEN /\ firstErr(ctxErr)
                    /\ cpc' = [cpc EXCEPT ![i] = "returned"]
                    /\ UNCHANGED <<wbuf, files, mWritten>>
               ELSE \E failed \in BOOLEAN :
                    IF failed
                    THEN /\ firstErr(<<"decrypt error">>)
                         /\ cpc' = [cpc EXCEPT ![i] = "returned"]
                         /\ UNCHANGED <<wbuf, files, mWritten>>
                    ELSE /\ wbuf' = [wbuf EXCEPT ![i] = Append(@, Decrypt(Head(intersected)))]
                         /\ mWritten' = mWritten + 1
                         /\ UNCHANGED <<gErr, ctxErr, cpc, files>>
       ELSE /\ intersectedClosed
            /\ cpc' = [cpc EXCEPT ![i] = "returned"]
            /\ \E failed \in BOOLEAN :
               IF failed
               THEN /\ firstErr(<<"write error">>)
                    /\ UNCHANGED <<wbuf, files>>
               ELSE /\ files' = [files EXCEPT ![i] = @ \o wbuf[i]]
                    /\ wbuf' = [wbuf EXCEPT ![i] = <<>>]
                    /\ UNCHANGED <<gErr, ctxErr>>
            /\ UNCHANGED <<intersected, mWritten>>
    /\ UNCHANGED <<inputLen, op, keyOk, requested, maxWorkers, readerPc, pos,
                  ids, read, readerErr, batch, batchClosed, mainPc, done,
                  doneClosed, errChan, errChanClosed, once, wpc, wids, werr,
                  writeLock, written, out, panicked, checks, faulted,
                  opResult, advStreams, pubPattern, advPc, advPos, maps,
                  advRead, newCtxErr, newErr, hashMap, matchPc, prodPc,
                  prodBatch, cursor, intersectedClosed, wsnap, writers,
                  forwarded, matchResult>>
    /\ UNCHANGED <<runVars, firstFailure, worder, secondary, out2, signals, sent>>

\* g.Wait() of Match and what follows it.
Match_Wait ==
    /\ matchPc = "Wait"
    /\ prodPc = "returned"
    /\ \A i \in Slots : cpc[i] \in {"idle", "returned"}
    /\ matchPc' = "returned"
    /\ IF gErr # Nil
       THEN matchResult' = gErr
       ELSE IF ~isEOF(readerErr)
       THEN matchResult' = readerErr
       ELSE \E failed \in BOOLEAN :
            matchResult' = IF failed /\ writers # <<>> THEN <<"close error">> ELSE Nil
    /\ UNCHANGED <<inputLen, op, keyOk, requested, maxWorkers, readerPc, pos,
                  ids, read, readerErr, batch, batchClosed, mainPc, done,
                  doneClosed, errChan, errChanClosed, once, ctxErr, gErr, wpc,
                  wids, werr, writeLock, written, out, panicked, checks,
                  faulted, opResult, advStreams, pubPattern, advPc, advPos,
                  maps, advRead, newCtxErr, newErr, hashMap, prodPc,
                  prodBatch, cursor, intersected, intersectedClosed, cpc,
                  wsnap, wbuf, files, writers, mWritten, forwarded>>
    /\ UNCHANGED <<runVars, firstFailure, worder, secondary, out2, signals, sent>>

-----------------------------------------------------------------------------
\* Re-invocation of the command on the same clean room

MaxInvocations == 2

\* Step s of the invocation was called and returned nil: a failing step ends
\* Run, so every step but the last one called returned nil.
stepOk(s) ==
    \E i \in DOMAIN executed :
        /\ executed[i] = s
        /\ i < Len(executed) \/ err = Nil

\* The data at loc, which step s writes, are complete and committed: by an
\* earlier invocation, or by this one (every writer saw its whole input and
\* was closed). Objects get fresh random names, so what an earlier invocation
\* committed stays in the bucket.
dataFull(loc, s) ==
    \/ loc \in stored
    \/ /\ stepOk(s)
       /\ \A i \in DOMAIN objects[loc] : Durable(objects[loc][i])

\* The coordination service moves the advertiser forward by the step markers
\* it finds.
advertiserAfter(state, mk) ==
    IF state = "INVITED" /\ "advTwice" \in mk
    THEN IF "pubTriple" \in mk THEN "DATA_TRANSFORMED" ELSE "DATA_CONTRIBUTED"
    ELSE IF state = "DATA_CONTRIBUTED" /\ "pubTriple" \in mk
    THEN "DATA_TRANSFORMED"
    ELSE state

\* The publisher states the service can show: the publisher transforms the
\* advertiser data once their marker is there.
publisherAfter(state, mk) ==
    {state} \cup
    (IF "advTwice" \in mk
     THEN {States[k] : k \in {j \in 1..Len(States) :
                                 \E h \in 1..j : States[h] = state}}
     ELSE {})

\* The object was committed (its writer was closed without error) with a
\* part of the step's output only. Its name ends in 32 random bits
\* (shortHex), which the objects of a later invocation do not repeat.
committedPart(o) == o.content = "partial" /\ o.closed = "closed"

\* The command is invoked again after an invocation has returned: the bucket
\* keeps its objects and markers, the service shows the states the markers
\* account for, and --output may be given this time.
Reinvoke ==
    /\ runPc = "done"
    /\ invocation < MaxInvocations
    /\ invocation' = invocation + 1
    /\ stored' = stored \cup {l \in {"advTwice"} : dataFull(l, 1)}
                        \cup {l \in {"pubTriple"} : dataFull(l, 2)}
    /\ leftover' = leftover \cup {l \in {"advTwice", "pubTriple"} :
                                  \E i \in DOMAIN objects[l] : committedPart(objects[l][i])}
    /\ \E p \in publisherAfter(firstPublisherState(cleanroom), markers) :
         cleanroom' = [i \in DOMAIN cleanroom |->
                         IF cleanroom[i].role = "PUBLISHER"
                         THEN [cleanroom[i] EXCEPT !.state = p]
                         ELSE IF cleanroom[i].role = "ADVERTISER"
                         THEN [cleanroom[i] EXCEPT
                                 !.state = advertiserAfter(cleanroom[i].state, markers)]
                         ELSE cleanroom[i]]
    /\ output' \in BOOLEAN
    /\ runPc' = "start"
    /\ publisherState' = "STATE_UNSPECIFIED"
    /\ advertiserState' = "STATE_UNSPECIFIED"
    /\ action' = noAction
    /\ executed' = <<>>
    /\ err' = Nil
    /\ objects' = [l \in Locations |-> <<>>]
    /\ polls' = 0
    /\ dataRead' = {}
    /\ rwIndex' = 0
    /\ result' = Pending
    /\ pollPending' = FALSE
    /\ callerCtx' = Nil
    /\ UNCHANGED <<publisherData, markers>>
    /\ UNCHANGED <<engVars, matVars, listVars, cliVars, keyVars>>

-----------------------------------------------------------------------------
\* The coordination-service client (cleanroomClient) and the calls the get
\* and run commands make before the first step

Requests == {"get", "refresh-token", "advance-advertiser-state"}

StatusOK == "200"
Statuses == {StatusOK, "404", "500"}

\* What a call of do returns once the response has the given status: the
\* body is read first, then the status is compared, then the body is parsed.
respond(req, st, readOk, parseOk) ==
    IF ~readOk
    THEN [req |-> req, status |-> st, res |-> FALSE, err |-> <<"io.ReadAll", "unexpected EOF">>]
    ELSE IF st # StatusOK
    THEN [req |-> req, status |-> st, res |-> FALSE, err |-> <<"unexpected status code", st>>]
    ELSE IF ~parseOk
    THEN [req |-> req, status |-> st, res |-> FALSE, err |-> <<"proto.Unmarshal", "cannot parse">>]
    ELSE [req |-> req, status |-> st, res |-> TRUE, err |-> Nil]

\* cleanroomClient.do: no response at all (status "none"), or a response.
clientDo(req) ==
    {[req |-> req, status |-> "none", res |-> FALSE, err |-> <<"client.Do", "connection refused">>]}
    \cup {respond(req, st, readOk, parseOk) :
              st \in Statuses, readOk \in BOOLEAN, parseOk \in BOOLEAN}

\* GetCmd.Run: client.GetCleanroom(ctx, c.View == sensitiveView)
GetCmd_GetCleanroom ==
    /\ command = "get"
    /\ cliPc = "GetCleanroom"
    /\ \E o \in clientDo("get") :
         /\ calls' = Append(calls, o)
         /\ IF o.err # Nil
            THEN /\ cmdResult' = o.err
                 /\ cliPc' = "done"
            ELSE IF sensitive /\ tokenState \in {"none", "expired"}
            THEN /\ cliPc' = "RefreshToken"
                 /\ UNCHANGED cmdResult
            ELSE /\ cmdResult' = Nil
                 /\ cliPc' = "done"
    /\ UNCHANGED <<command, sensitive, tokenState>>
    /\ UNCHANGED <<stepVars, engVars, matVars, listVars, keyVars>>

\* GetCmd.Run: client.RefreshToken(ctx)
GetCmd_RefreshToken ==
    /\ command = "get"
    /\ cliPc = "RefreshToken"
    /\ \E o \in clientDo("refresh-token") :
         /\ calls' = Append(calls, o)
         /\ cmdResult' = o.err
         /\ tokenState' = IF o.err = Nil THEN "valid" ELSE tokenState
    /\ cliPc' = "done"
    /\ UNCHANGED <<command, sensitive>>
    /\ UNCHANGED <<stepVars, engVars, matVars, listVars, keyVars>>

\* NewPAIRConfig: client.GetDownScopedToken, its GetCleanroom(ctx, true)
GetDownScopedToken_GetCleanroom ==
    /\ command = "run"
    /\ cliPc = "GetDownScopedToken"
    /\ \E o \in clientDo("get") :
         /\ calls' = Append(calls, o)
         /\ IF o.err # Nil
            THEN /\ cmdResult' = Wrap("failed to get down scoped token", o.err)
                 /\ cliPc' = "done"
            ELSE IF tokenState = "none"
            THEN /\ cmdResult' = <<"failed to get down scoped token", "token not found">>
                 /\ cliPc' = "done"
            ELSE /\ cliPc' = IF tokenState = "expired" THEN "GetDownScopedToken_RefreshToken"
                                                        ELSE "GetConfig"
                 /\ UNCHANGED cmdResult
    /\ UNCHANGED <<command, sensitive, tokenState>>
    /\ UNCHANGED <<stepVars, engVars, matVars, listVars, keyVars>>

\* NewPAIRConfig: client.GetDownScopedToken, its RefreshToken(ctx)
GetDownScopedToken_RefreshToken ==
    /\ command = "run"
    /\ cliPc = "GetDownScopedToken_RefreshToken"
    /\ \E o \in clientDo("refresh-token") :
         /\ calls' = Append(calls, o)
         /\ IF o.err # Nil
            THEN /\ cmdResult' = Wrap("failed to get down scoped token",
                                      Wrap("failed to refresh token", o.err))
                 /\ cliPc' = "done"
                 /\ UNCHANGED tokenState
            ELSE /\ cliPc' = "GetConfig"
                 /\ tokenState' = "valid"
                 /\ UNCHANGED cmdResult
    /\ UNCHANGED <<command, sensitive>>
    /\ UNCHANGED <<stepVars, engVars, matVars, listVars, keyVars>>

\* NewPAIRConfig: client.GetConfig(ctx), a GetCleanroom(ctx, false)
NewPAIRConfig_GetConfig ==
    /\ command = "run"
    /\ cliPc = "GetConfig"
    /\ \E o \in clientDo("get") :
         /\ calls' = Append(calls, o)
         /\ IF o.err # Nil
            THEN /\ cmdResult' = o.err
                 /\ cliPc' = "done"
            ELSE /\ cliPc' = "Run_GetCleanroom"
                 /\ UNCHANGED cmdResult
    /\ UNCHANGED <<command, sensitive, tokenState>>
    /\ UNCHANGED <<stepVars, engVars, matVars, listVars, keyVars>>

\* RunCmd.Run: pairCfg.cleanroomClient.GetCleanroom(ctx, false); the steps
\* follow.
RunCmd_GetCleanroom ==
    /\ command = "run"
    /\ cliPc = "Run_GetCleanroom"
    /\ \E o \in clientDo("get") :
         /\ calls' = Append(calls, o)
         /\ IF o.err # Nil
            THEN /\ cmdResult' = Wrap("GetCleanroom", o.err)
                 /\ cliPc' = "done"
            ELSE /\ cliPc' = "steps"
                 /\ UNCHANGED cmdResult
    /\ UNCHANGED <<command, sensitive, tokenState>>
    /\ UNCHANGED <<stepVars, engVars, matVars, listVars, keyVars>>

-----------------------------------------------------------------------------
\* The key create command: CreateCmd.Run on the key configuration file

MaxKeys == 3

Contexts == {"default", "other"}

NoCreate == [context |-> "", force |-> FALSE, before |-> <<>>, result |-> Pending]

EmptyFile == [ok |-> TRUE, configs |-> [c \in Contexts |-> 0]]

\* LoadKeyConfig(context, configPath, false): the key of the context, 0 when
\* the file is empty or has no entry for it.
LoadKeyConfig(c) == keyFile.configs[c]

\* Mutant: a key is generated whether the context has one or not.
mustGenerate_always(keyConfig, force) == TRUE

\* cli.config.keyConfig == nil || c.Force
mustGenerate(keyConfig, force) == keyConfig = 0 \/ force

\* keys.GenerateKeyConfig(): a key id and key that no earlier call returned.
GenerateKeyConfig == generated + 1

\* One invocation of key create for context c: the configuration is loaded,
\* CreateCmd.Run generates a key when it must and SaveConfig writes the file.
\* SaveConfig opens the file without truncating it and writes the whole map
\* from its start; a failing write leaves the file as it was or unreadable.
CreateCmd_Run ==
    \E c \in Contexts : \E force \in BOOLEAN :
    \E fail \in {"none", "os.OpenFile", "GenerateKeyConfig", "SaveConfig: os.OpenFile",
                 "json.Encode"} :
      /\ generated < MaxKeys
      /\ IF ~keyFile.ok
         THEN \* loadAllKeyConfigs fails to decode the file
              /\ lastCreate' = [context |-> c, force |-> force, before |-> keyFile,
                                result |-> <<"json.Decode", "invalid character">>]
              /\ UNCHANGED <<keyFile, generated>>
         ELSE IF fail = "os.OpenFile"
         THEN /\ lastCreate' = [context |-> c, force |-> force, before |-> keyFile,
                                result |-> <<fail, "failed">>]
              /\ UNCHANGED <<keyFile, generated>>
         ELSE IF ~mustGenerate(LoadKeyConfig(c), force)
         THEN /\ lastCreate' = [context |-> c, force |-> force, before |-> keyFile,
                                result |-> Nil]
              /\ UNCHANGED <<keyFile, generated>>
         ELSE IF fail = "GenerateKeyConfig"
         THEN /\ lastCreate' = [context |-> c, force |-> force, before |-> keyFile,
                                result |-> <<fail, "failed">>]
              /\ UNCHANGED <<keyFile, generated>>
         ELSE /\ generated' = GenerateKeyConfig
              /\ IF fail = "none"
                 THEN /\ keyFile' = [keyFile EXCEPT !.configs[c] = GenerateKeyConfig]
                      /\ lastCreate' = [context |-> c, force |-> force, before |-> keyFile,
                                        result |-> Nil]
                 ELSE /\ lastCreate' = [context |-> c, force |-> force, before |-> keyFile,
                                        result |-> <<fail, "failed">>]
                      /\ IF fail = "json.Encode"
                         THEN \E broken \in BOOLEAN :
                                keyFile' = IF broken THEN [keyFile EXCEPT !.ok = FALSE]
                                           ELSE keyFile
                         ELSE UNCHANGED keyFile
      /\ UNCHANGED <<stepVars, cliVars, engVars, matVars, listVars>>

-----------------------------------------------------------------------------
\* The specifications. Each starts its own component and leaves the variables
\* of the other components at rest.

IdleKey ==
    /\ keyFile = EmptyFile
    /\ generated = 0
    /\ lastCreate = NoCreate

-----------------------------------------------------------------------------
\* The listing of a storage location: readersFromPrefixedBucket and
\* newObjectReadWriteCloser

MaxListed == 2

\* An object name below "<prefix>/", as a sequence of pieces: a plain piece,
\* the separator "/", and the piece ".Completed".
Pieces == {"a", "/", ".Completed"}

Names == SeqsUpTo(Pieces, 2) \ {<<>>}

CompletedFile == <<".Completed">>

\* What the iterator can yield for a prefix: objects with different names.
Listings ==
    {l \in SeqsUpTo([name : Names, size : {0, 1}], MaxListed) :
        \A i, j \in DOMAIN l : i # j => l[i].name # l[j].name}

\* strings.HasSuffix
HasSuffix(str, suffix) ==
    /\ Len(str) >= Len(suffix)
    /\ SubSeq(str, Len(str) - Len(suffix) + 1, Len(str)) = suffix

\* The test of the loop body that ends in continue.
skipped(obj) ==
    \/ HasSuffix(obj.name, CompletedFile)
    \/ HasSuffix(obj.name, <<"/">>)
    \/ obj.size = 0

\* One turn of the loop over it.Next(): the end of the listing, an error of
\* the iterator, an object skipped, or a reader opened (which can fail).
readersFromPrefixedBucket_Next ==
    /\ listPc = "Next"
    /\ IF listPos = Len(listing)
       THEN /\ listPc' = "returned"
            /\ UNCHANGED <<listPos, readers, listErr>>
       ELSE \E fail \in {"none", "it.Next", "NewReader"} :
            LET obj == listing[listPos + 1]
            IN IF fail = "it.Next" \/ (fail = "NewReader" /\ ~skipped(obj))
               THEN /\ listErr' = <<fail, "failed">>
                    /\ readers' = <<>>
                    /\ listPc' = "returned"
                    /\ UNCHANGED listPos
               ELSE /\ listPos' = listPos + 1
                    /\ readers' = IF skipped(obj) THEN readers
                                  ELSE Append(readers, obj.name)
                    /\ UNCHANGED <<listPc, listErr>>
    /\ UNCHANGED listing
    /\ UNCHANGED <<stepVars, cliVars, keyVars, engVars, matVars>>

IdleList ==
    /\ listing = <<>>
    /\ listPc = "returned"
    /\ listPos = 0
    /\ readers = <<>>
    /\ listErr = Nil

IdleClient ==
    /\ command = "run"
    /\ sensitive = FALSE
    /\ tokenState = "valid"
    /\ cliPc = "done"
    /\ calls = <<>>
    /\ cmdResult = Nil

IdleRun ==
    /\ cleanroom = <<>>
    /\ output = FALSE
    /\ publisherData = FALSE
    /\ runPc = "done"
    /\ publisherState = "STATE_UNSPECIFIED"
    /\ advertiserState = "STATE_UNSPECIFIED"
    /\ action = noAction
    /\ executed = <<>>
    /\ err = Nil
    /\ objects = [l \in Locations |-> <<>>]
    /\ markers = {}
    /\ polls = 0
    /\ pollPending = FALSE
    /\ callerCtx = Nil
    /\ dataRead = {}
    /\ rwIndex = 0
    /\ result = Nil
    /\ invocation = 1
    /\ stored = {}
    /\ leftover = {}
    /\ IdleClient
    /\ IdleKey

IdleEngine ==
    /\ inputLen = 0
    /\ op = "HashEncrypt"
    /\ keyOk = TRUE
    /\ requested = 1
    /\ maxWorkers = 1
    /\ readerPc = "returned"
    /\ pos = 0
    /\ ids = NoBatch
    /\ read = 0
    /\ readerErr = Nil
    /\ batch = <<>>
    /\ batchClosed = FALSE
    /\ faulted = FALSE
    /\ mainPc = "returned"
    /\ done = 0
    /\ doneClosed = FALSE
    /\ errChan = <<>>
    /\ errChanClosed = FALSE
    /\ once = FALSE
    /\ ctxErr = Nil
    /\ gErr = Nil
    /\ wpc = [i \in Slots |-> "idle"]
    /\ wids = [i \in Slots |-> NoBatch]
    /\ worder = [i \in Slots |-> <<>>]
    /\ werr = [i \in Slots |-> Nil]
    /\ writeLock = 0
    /\ written = 0
    /\ out = <<>>
    /\ panicked = FALSE
    /\ checks = 0
    /\ opResult = Nil
    /\ firstFailure = Nil
    /\ secondary = FALSE
    /\ out2 = <<>>
    /\ signals = 0
    /\ sent = <<>>

IdleMatch ==
    /\ advStreams = <<>>
    /\ pubPattern = <<>>
    /\ advPc = <<>>
    /\ advPos = <<>>
    /\ maps = <<>>
    /\ advRead = 0
    /\ newCtxErr = Nil
    /\ newErr = Nil
    /\ hashMap = {}
    /\ matchPc = "returned"
    /\ prodPc = "idle"
    /\ prodBatch = NoBatch
    /\ cursor = 0
    /\ intersected = <<>>
    /\ intersectedClosed = FALSE
    /\ cpc = [i \in Slots |-> "idle"]
    /\ wsnap = [i \in Slots |-> <<>>]
    /\ wbuf = [i \in Slots |-> <<>>]
    /\ files = [i \in Slots |-> <<>>]
    /\ writers = <<>>
    /\ mWritten = 0
    /\ forwarded = <<>>
    /\ matchResult = Nil

InitRun ==
    /\ cleanroom \in Cleanrooms
    /\ output \in BOOLEAN
    /\ publisherData \in BOOLEAN
    /\ runPc = "start"
    /\ publisherState = "STATE_UNSPECIFIED"
    /\ advertiserState = "STATE_UNSPECIFIED"
    /\ action = noAction
    /\ executed = <<>>
    /\ err = Nil
    /\ objects = [l \in Locations |-> <<>>]
    /\ markers = {}
    /\ polls = 0
    /\ pollPending = FALSE
    /\ callerCtx = Nil
    /\ dataRead = {}
    /\ rwIndex = 0
    /\ result = Pending
    /\ invocation = 1
    /\ stored = {}
    /\ leftover = {}
    /\ IdleList
    /\ IdleClient
    /\ IdleKey
    /\ IdleEngine
    /\ IdleMatch

NextRun ==
    \/ Run
    \/ hashEncryt
    \/ hashEncryt_HashEncrypt
    \/ hashEncryt_Close
    \/ hashEncryt_Complete
    \/ reEncrypt
    \/ reEncrypt_ReEncrypt
    \/ reEncrypt_Close
    \/ reEncrypt_Complete
    \/ waitForState_tick
    \/ waitForState_GetCleanroom
    \/ waitForState_timeout
    \/ waitForState_ctxDone
    \/ callerCancel
    \/ PublisherAdvances
    \/ match

InitEngine ==
    /\ inputLen \in InputSizes
    /\ op \in Operations
    /\ keyOk \in BOOLEAN
    /\ requested \in 1..MaxRequested
    /\ maxWorkers \in 1..MaxProcs
    /\ readerPc = "read"
    /\ pos = 0
    /\ ids = NoBatch
    /\ read = 0
    /\ readerErr = Nil
    /\ batch = <<>>
    /\ batchClosed = FALSE
    /\ mainPc = "select"
    /\ done = 0
    /\ doneClosed = FALSE
    /\ errChan = <<>>
    /\ errChanClosed = FALSE
    /\ once = FALSE
    /\ ctxErr = Nil
    /\ gErr = Nil
    /\ wpc = [i \in Slots |-> "idle"]
    /\ wids = [i \in Slots |-> NoBatch]
    /\ worder = [i \in Slots |-> <<>>]
    /\ werr = [i \in Slots |-> Nil]
    /\ writeLock = 0
    /\ written = 0
    /\ out = <<>>
    /\ panicked = FALSE
    /\ checks = 0
    /\ faulted = ~keyOk
    /\ opResult = Pending
    /\ firstFailure = Nil
    /\ secondary = FALSE
    /\ out2 = <<>>
    /\ signals = 0
    /\ sent = <<>>
    /\ IdleRun
    /\ IdleList
    /\ IdleMatch

NextEngine ==
    \/ readPAIRIDs_read
    \/ readPAIRIDs_send
    \/ readPAIRIDs_sendLast
    \/ readPAIRIDs_close
    \/ runPAIROperation_errChan
    \/ runPAIROperation_done
    \/ runPAIROperation_Wait
    \/ runPAIROperation_ctxDone
    \/ runPAIROperation_default
    \/ runPAIROperation_Go
    \/ ctxTimeout
    \/ \E i \in Slots :
         \/ worker_start(i)
         \/ operate_receive(i)
         \/ operate_transform(i)
         \/ operate_lock(i)
         \/ operate_write_part(i)
         \/ operate_write(i)
         \/ worker_once(i)
         \/ worker_sendErr(i)
         \/ worker_returnErr(i)

\* The state when NewMatcher is called: the publisher reader is about to
\* start, one goroutine per advertiser stream is about to read.
InitMatch ==
    /\ advStreams \in AdvInputs
    /\ pubPattern \in PubPatterns
    /\ inputLen \in PubSizes
    /\ keyOk \in BOOLEAN
    /\ requested \in 1..MaxRequested
    /\ maxWorkers \in 1..MaxProcs
    /\ op = "Decrypt"
    /\ faulted = ~keyOk
    /\ readerPc = "read"
    /\ pos = 0
    /\ ids = NoBatch
    /\ read = 0
    /\ readerErr = Nil
    /\ batch = <<>>
    /\ batchClosed = FALSE
    /\ mainPc = "returned"
    /\ done = 0
    /\ doneClosed = FALSE
    /\ errChan = <<>>
    /\ errChanClosed = FALSE
    /\ once = FALSE
    /\ ctxErr = Nil
    /\ gErr = Nil
    /\ wpc = [i \in Slots |-> "idle"]
    /\ wids = [i \in Slots |-> NoBatch]
    /\ worder = [i \in Slots |-> <<>>]
    /\ werr = [i \in Slots |-> Nil]
    /\ writeLock = 0
    /\ written = 0
    /\ out = <<>>
    /\ panicked = FALSE
    /\ checks = 0
    /\ opResult = Nil
    /\ firstFailure = Nil
    /\ secondary = FALSE
    /\ out2 = <<>>
    /\ signals = 0
    /\ sent = <<>>
    /\ advPc = [i \in DOMAIN advStreams |-> "read"]
    /\ advPos = [i \in DOMAIN advStreams |-> 0]
    /\ maps = [i \in DOMAIN advStreams |-> {}]
    /\ advRead = 0
    /\ newCtxErr = Nil
    /\ newErr = Nil
    /\ hashMap = {}
    /\ matchPc = "NewMatcher"
    /\ prodPc = "idle"
    /\ prodBatch = NoBatch
    /\ cursor = 0
    /\ intersected = <<>>
    /\ intersectedClosed = FALSE
    /\ cpc = [i \in Slots |-> "idle"]
    /\ wsnap = [i \in Slots |-> <<>>]
    /\ wbuf = [i \in Slots |-> <<>>]
    /\ files = [i \in Slots |-> <<>>]
    /\ writers = <<>>
    /\ mWritten = 0
    /\ forwarded = <<>>
    /\ matchResult = Pending
    /\ IdleRun
    /\ IdleList

NextMatch ==
    \/ readPAIRIDs_read
    \/ readPAIRIDs_send
    \/ readPAIRIDs_sendLast
    \/ readPAIRIDs_close
    \/ \E i \in 1..MaxAdvStreams : NewMatcher_read(i)
    \/ NewMatcher_Wait
    \/ Match
    \/ Match_timeout
    \/ producer_range
    \/ producer_scan
    \/ \E i \in Slots :
         \/ consumer_NewWriter(i)
         \/ consumer_append(i)
         \/ consumer_range(i)
    \/ Match_Wait

SpecRun == InitRun /\ [][NextRun]_vars

\* Run under fair scheduling: the steps of Run itself are taken when they can
\* be; the one-hour timer fires and the select, which picks at random among
\* its ready cases, takes it in the end. When the coordination service
\* answers a call, and whether the caller's context ends, is not Run's choice.
FairRun ==
    /\ WF_vars(Run)
    /\ WF_vars(hashEncryt) /\ WF_vars(hashEncryt_HashEncrypt)
    /\ WF_vars(hashEncryt_Close) /\ WF_vars(hashEncryt_Complete)
    /\ WF_vars(reEncrypt) /\ WF_vars(reEncrypt_ReEncrypt)
    /\ WF_vars(reEncrypt_Close) /\ WF_vars(reEncrypt_Complete)
    /\ WF_vars(match)
    /\ SF_vars(waitForState_timeout)
    /\ SF_vars(waitForState_ctxDone)

SpecRunFair == InitRun /\ [][NextRun]_vars /\ FairRun

SpecEngine == InitEngine /\ [][NextEngine]_vars

\* The steps of the loop of runPAIROperation and of the goroutine in slot i.
loopStep ==
    \/ runPAIROperation_errChan
    \/ runPAIROperation_done
    \/ runPAIROperation_Wait
    \/ runPAIROperation_ctxDone
    \/ runPAIROperation_default
    \/ runPAIROperation_Go

workerStep(i) ==
    \/ worker_start(i)
    \/ operate_receive(i)
    \/ operate_transform(i)
    \/ operate_lock(i)
    \/ operate_write_part(i)
    \/ operate_write(i)
    \/ worker_once(i)
    \/ worker_sendErr(i)
    \/ worker_returnErr(i)

\* The scheduler runs every goroutine that can take a step: the loop, the
\* workers, and the reader when it sends or closes.  The reader's Read
\* returns when the input delivers, which may never happen, and nothing makes
\* the deadline pass.
FairEngine ==
    /\ WF_vars(loopStep)
    /\ \A i \in Slots : WF_vars(workerStep(i))
    /\ WF_vars(readPAIRIDs_send \/ readPAIRIDs_sendLast \/ readPAIRIDs_close)

SpecEngineFair == InitEngine /\ [][NextEngine]_vars /\ FairEngine

SpecMatch == InitMatch /\ [][NextMatch]_vars

\* A fresh clean room (publisher data contributed, advertiser invited) on
\* which the command is invoked up to MaxInvocations times.
InitResume ==
    /\ cleanroom = <<[role |-> "PUBLISHER", state |-> "DATA_CONTRIBUTED"],
                     [role |-> "ADVERTISER", state |-> "INVITED"]>>
    /\ output \in BOOLEAN
    /\ publisherData \in BOOLEAN
    /\ runPc = "start"
    /\ publisherState = "STATE_UNSPECIFIED"
    /\ advertiserState = "STATE_UNSPECIFIED"
    /\ action = noAction
    /\ executed = <<>>
    /\ err = Nil
    /\ objects = [l \in Locations |-> <<>>]
    /\ markers = {}
    /\ polls = 0
    /\ pollPending = FALSE
    /\ callerCtx = Nil
    /\ dataRead = {}
    /\ rwIndex = 0
    /\ result = Pending
    /\ invocation = 1
    /\ stored = {}
    /\ leftover = {}
    /\ IdleList
    /\ IdleClient
    /\ IdleKey
    /\ IdleEngine
    /\ IdleMatch

NextResume ==
    \/ Run
    \/ hashEncryt
    \/ hashEncryt_HashEncrypt
    \/ hashEncryt_Close
    \/ hashEncryt_Complete
    \/ reEncrypt
    \/ reEncrypt_ReEncrypt
    \/ reEncrypt_Close
    \/ reEncrypt_Complete
    \/ waitForState_tick
    \/ waitForState_GetCleanroom
    \/ waitForState_timeout
    \/ waitForState_ctxDone
    \/ callerCancel
    \/ PublisherAdvances
    \/ match
    \/ Reinvoke

SpecResume == InitResume /\ [][NextResume]_vars

\* The call of step 2 with a local path for the publisher data: ReEncrypt on
\* a read writer made with WithSecondaryWriter.
InitCopy ==
    /\ inputLen \in InputSizes
    /\ op = "ReEncrypt"
    /\ keyOk \in BOOLEAN
    /\ requested \in 1..MaxRequested
    /\ maxWorkers \in 1..MaxProcs
    /\ readerPc = "read"
    /\ pos = 0
    /\ ids = NoBatch
    /\ read = 0
    /\ readerErr = Nil
    /\ batch = <<>>
    /\ batchClosed = FALSE
    /\ mainPc = "select"
    /\ done = 0
    /\ doneClosed = FALSE
    /\ errChan = <<>>
    /\ errChanClosed = FALSE
    /\ once = FALSE
    /\ ctxErr = Nil
    /\ gErr = Nil
    /\ wpc = [i \in Slots |-> "idle"]
    /\ wids = [i \in Slots |-> NoBatch]
    /\ worder = [i \in Slots |-> <<>>]
    /\ werr = [i \in Slots |-> Nil]
    /\ writeLock = 0
    /\ written = 0
    /\ out = <<>>
    /\ panicked = FALSE
    /\ checks = 0
    /\ faulted = ~keyOk
    /\ opResult = Pending
    /\ firstFailure = Nil
    /\ secondary = TRUE
    /\ out2 = <<>>
    /\ signals = 0
    /\ sent = <<>>
    /\ IdleRun
    /\ IdleList
    /\ IdleMatch

SpecCopy == InitCopy /\ [][NextEngine]_vars

\* The batches of batchSize records a reader has queued after k sends.
queued(k) == [j \in 1..k |-> [lo |-> (j - 1) * batchSize + 1, n |-> batchSize]]

\* NewPAIRIDReadWriter on an input of more full batches than the queue holds,
\* followed by an operation with a private key that NewPAIRPrivateKey
\* rejects: the operation aborts and nothing receives from the queue.  The
\* reader, started by NewPAIRIDReadWriter, has run ahead of its caller: the
\* queue is one batch short of full when the operation starts.
InitAbort ==
    /\ inputLen = batchSize * (batchSize + 1)
    /\ op = "HashEncrypt"
    /\ keyOk = FALSE
    /\ requested \in 1..MaxRequested
    /\ maxWorkers \in 1..MaxProcs
    /\ readerPc = "read"
    /\ pos = batchSize * (batchSize - 1)
    /\ ids = NoBatch
    /\ read = batchSize * (batchSize - 1)
    /\ readerErr = Nil
    /\ batch = queued(batchSize - 1)
    /\ batchClosed = FALSE
    /\ mainPc = "select"
    /\ done = 0
    /\ doneClosed = FALSE
    /\ errChan = <<>>
    /\ errChanClosed = FALSE
    /\ once = FALSE
    /\ ctxErr = Nil
    /\ gErr = Nil
    /\ wpc = [i \in Slots |-> "idle"]
    /\ wids = [i \in Slots |-> NoBatch]
    /\ worder = [i \in Slots |-> <<>>]
    /\ werr = [i \in Slots |-> Nil]
    /\ writeLock = 0
    /\ written = 0
    /\ out = <<>>
    /\ panicked = FALSE
    /\ checks = 0
    /\ faulted = TRUE
    /\ opResult = Pending
    /\ firstFailure = Nil
    /\ secondary = FALSE
    /\ out2 = <<>>
    /\ signals = 0
    /\ sent = queued(batchSize - 1)
    /\ IdleRun
    /\ IdleList
    /\ IdleMatch

\* The steps of the engine that are possible with a rejected key: no
\* goroutine reaches operate.
NextAbort ==
    \/ readPAIRIDs_read
    \/ readPAIRIDs_send
    \/ runPAIROperation_errChan
    \/ runPAIROperation_ctxDone
    \/ runPAIROperation_default
    \/ runPAIROperation_Go
    \/ ctxTimeout
    \/ \E i \in Slots :
         \/ worker_start(i)
         \/ worker_sendErr(i)
         \/ worker_returnErr(i)

\* The input delivers every record, and the scheduler runs every goroutine
\* that can take a step.
FairAbort == FairEngine /\ WF_vars(readPAIRIDs_read)

SpecAbort == InitAbort /\ [][NextAbort]_vars /\ FairAbort

\* A get or a run command is invoked.
InitClient ==
    /\ command \in {"get", "run"}
    /\ sensitive \in (IF command = "get" THEN BOOLEAN ELSE {FALSE})
    /\ tokenState \in {"none", "expired", "valid"}
    /\ cliPc = IF command = "get" THEN "GetCleanroom" ELSE "GetDownScopedToken"
    /\ calls = <<>>
    /\ cmdResult = Pending
    /\ cleanroom = <<>>
    /\ output = FALSE
    /\ publisherData = FALSE
    /\ runPc = "done"
    /\ publisherState = "STATE_UNSPECIFIED"
    /\ advertiserState = "STATE_UNSPECIFIED"
    /\ action = noAction
    /\ executed = <<>>
    /\ err = Nil
    /\ objects = [l \in Locations |-> <<>>]
    /\ markers = {}
    /\ polls = 0
    /\ pollPending = FALSE
    /\ callerCtx = Nil
    /\ dataRead = {}
    /\ rwIndex = 0
    /\ result = Nil
    /\ invocation = 1
    /\ stored = {}
    /\ leftover = {}
    /\ IdleList
    /\ IdleKey
    /\ IdleEngine
    /\ IdleMatch

NextClient ==
    \/ GetCmd_GetCleanroom
    \/ GetCmd_RefreshToken
    \/ GetDownScopedToken_GetCleanroom
    \/ GetDownScopedToken_RefreshToken
    \/ NewPAIRConfig_GetConfig
    \/ RunCmd_GetCleanroom

SpecClient == InitClient /\ [][NextClient]_vars

\* The key configuration file does not exist yet; key create is invoked any
\* number of times, with and without --force, for either context.
InitKey ==
    /\ keyFile = EmptyFile
    /\ generated = 0
    /\ lastCreate = NoCreate
    /\ cleanroom = <<>>
    /\ output = FALSE
    /\ publisherData = FALSE
    /\ runPc = "done"
    /\ publisherState = "STATE_UNSPECIFIED"
    /\ advertiserState = "STATE_UNSPECIFIED"
    /\ action = noAction
    /\ executed = <<>>
    /\ err = Nil
    /\ objects = [l \in Locations |-> <<>>]
    /\ markers = {}
    /\ polls = 0
    /\ pollPending = FALSE
    /\ callerCtx = Nil
    /\ dataRead = {}
    /\ rwIndex = 0
    /\ result = Nil
    /\ invocation = 1
    /\ stored = {}
    /\ leftover = {}
    /\ IdleList
    /\ IdleClient
    /\ IdleEngine
    /\ IdleMatch

NextKey == CreateCmd_Run

SpecKey == InitKey /\ [][NextKey]_vars

-----------------------------------------------------------------------------
\* Properties of the transform engine

\* The batches on the sink that hold input record r.
writesOf(r) == {j \in DOMAIN out : r \in records(out[j])}

\* C1: when HashEncrypt, ReEncrypt or Decrypt has returned nil, whatever the
\* number of workers and the interleaving, every input record is on the sink
\* in exactly one written batch, transformed by the operation of the run, and
\* the written count equals the read count.
C1_WrittenExactlyOnce ==
    opResult = Nil =>
        /\ written = read
        /\ read = inputLen
        /\ \A r \in 1..inputLen : Cardinality(writesOf(r)) = 1
        /\ \A j \in DOMAIN out : out[j].op = op /\ records(out[j]) \subseteq 1..inputLen

\* Two workers wrote the two batches of an input in the order opposite to the
\* input's, and the operation returned nil.
C1_Witness ==
    /\ opResult = Nil
    /\ mainPc = "returned"
    /\ inputLen = batchSize + 1
    /\ Len(out) = 2
    /\ out[1].lo > out[2].lo
    /\ written = inputLen

\* C4: a run that met no other failure returns ErrInputBelowThreshold when
\* its input holds fewer than minimumIDCount records; a run over at least
\* minimumIDCount records never returns it; and the comparison is made at
\* most once, when every worker has returned and the batches are drained.
C4_ThresholdAfterCompletion ==
    /\ (mainPc = "returned" /\ ~faulted /\ inputLen < minimumIDCount)
           => opResult = ErrInputBelowThreshold
    /\ (mainPc = "returned" /\ inputLen >= minimumIDCount)
           => opResult # ErrInputBelowThreshold
    /\ checks <= 1
    /\ checks = 1 => /\ \A i \in Slots : wpc[i] = "idle"
                     /\ batch = <<>> /\ batchClosed
                     /\ written = read

\* One record short of the threshold: every record was transformed and
\* written, and the operation returned ErrInputBelowThreshold.
C4_Witness ==
    /\ mainPc = "returned"
    /\ ~faulted
    /\ inputLen = minimumIDCount - 1
    /\ written = inputLen
    /\ checks = 1
    /\ opResult = ErrInputBelowThreshold

-----------------------------------------------------------------------------
\* Properties of the matcher

\* Where the decrypted form of id stands in the consumers' outputs, flushed
\* or still buffered.
outputsOf(id) ==
    {p \in UNION {{<<i, "file", k>> : k \in DOMAIN files[i]} : i \in Slots} :
        files[p[1]][p[3]] = Decrypt(id)}
    \cup
    {p \in UNION {{<<i, "buffer", k>> : k \in DOMAIN wbuf[i]} : i \in Slots} :
        wbuf[p[1]][p[3]] = Decrypt(id)}

\* C2: every advertiser id is sent on m.intersected at most once and written
\* at most once over all the result files, and an id that was sent is no
\* longer in m.hashMap, whatever the repetitions in the two inputs.
C2_ForwardedAtMostOnce ==
    /\ \A j, k \in DOMAIN forwarded : forwarded[j] = forwarded[k] => j = k
    /\ \A j \in DOMAIN forwarded : forwarded[j] \notin hashMap
    /\ \A id \in IDs : Cardinality(outputsOf(id)) <= 1

\* Two advertiser files hold the same id, the publisher stream holds it in
\* both of its batches, and Match returned nil with the id written once.
C2_Witness ==
    /\ matchPc = "returned"
    /\ matchResult = Nil
    /\ Len(advStreams) = 2
    /\ advStreams[1] = advStreams[2]
    /\ advStreams[1] # <<>>
    /\ inputLen = batchSize + 1
    /\ pubPattern = <<advStreams[1][1]>>
    /\ forwarded = pubPattern
    /\ Cardinality(outputsOf(pubPattern[1])) = 1

\* C5: a matcher run that read fewer than minimumIDCount advertiser records
\* does not return success.
C5_BelowThresholdFails ==
    (matchPc = "returned" /\ advRead < minimumIDCount) => matchResult # Nil

-----------------------------------------------------------------------------
\* Properties of the orchestrator

IsPrefix(p, q) == Len(p) <= Len(q) /\ \A i \in 1..Len(p) : p[i] = q[i]

\* The selected step followed by every later step.
stepsFrom(s) == IF s = 0 THEN <<>> ELSE [i \in 1..(4 - s) |-> s + i - 1]

observed == runPc # "start" /\ ~(result # Nil /\ result[1] = "GetCleanroom")

stepLocations == {"advTwice", "pubTriple"}

\* C3: for step 1 (advertiser-twice) and step 2 (publisher-triple) the
\* .Completed marker is at the location only when every data object of the
\* step there was completely written and its writer closed successfully; in
\* particular no marker is written when closing a data writer fails.
C3_MarkerOnlyWhenDurable ==
    \A loc \in stepLocations :
        loc \in markers => \A i \in DOMAIN objects[loc] : Durable(objects[loc][i])

\* C6: when the transform of step 1 (HashEncrypt) or of step 2 (ReEncrypt)
\* returned an error, whichever error it is, the step's destination holds no
\* .Completed marker.
C6_NoMarkerOnTransformError ==
    /\ (err # Nil /\ err[1] = "pairRW.HashEncrypt") => "advTwice" \notin markers
    /\ (err # Nil /\ err[1] = "pairRW.ReEncrypt") => "pubTriple" \notin markers

\* Step 1 completed and wrote its marker, step 2 failed below the threshold.
C6_Witness ==
    /\ runPc = "done"
    /\ err = Wrap("pairRW.ReEncrypt", ErrInputBelowThreshold)
    /\ "advTwice" \in markers
    /\ executed = <<1, 2>>

\* The table of the specification, as sets of (publisher, advertiser) pairs.
stepOnePairs == {<<"DATA_CONTRIBUTED", "INVITED">>}
stepTwoPairs == {"DATA_CONTRIBUTED", "DATA_TRANSFORMING", "DATA_TRANSFORMED"}
                    \X {"DATA_CONTRIBUTED"}
stepThreePairs == {"DATA_CONTRIBUTED", "DATA_TRANSFORMING", "DATA_TRANSFORMED",
                   "RUNNING", "SUCCEEDED"} \X {"DATA_TRANSFORMED"}

\* C7: for every observed (publisher state, advertiser state) the selected
\* action is the one of the table (step 1, step 2, step 3 or none), and at
\* most one action is selected.
C7_ActionIsTheTable ==
    observed =>
        LET pair == <<publisherState, advertiserState>> IN
        /\ action.contributeAdvertiserData <=> pair \in stepOnePairs
        /\ action.reEncryptPublisherData <=> pair \in stepTwoPairs
        /\ action.matchData <=> pair \in stepThreePairs
        /\ Cardinality({f \in DOMAIN action : action[f]}) <= 1

C7_Witness ==
    /\ observed
    /\ publisherState = "DATA_TRANSFORMING"
    /\ advertiserState = "DATA_CONTRIBUTED"
    /\ action.reEncryptPublisherData
    /\ executed = <<2>>

C9_AllLaterStepsExecuted ==
    (runPc = "done" /\ observed) => executed = stepsFrom(firstStep(action))

\* C9, amended: the executed steps are an initial segment of the selected
\* step followed by the later steps in increasing order (so no step runs twice
\* and none before the selected one); the segment stops after step 2 when no
\* output target is given and after the failing step when a step fails, and
\* is complete when Run returns nil with an output target.
C9_ForwardSegment ==
    observed =>
        /\ IsPrefix(executed, stepsFrom(firstStep(action)))
        /\ (runPc = "done" /\ result = Nil /\ output) =>
                executed = stepsFrom(firstStep(action))
        /\ (runPc = "done" /\ result = Nil /\ ~output) =>
                executed = SelectSeq(stepsFrom(firstStep(action)), LAMBDA s : s # 3)
        /\ (runPc = "done" /\ err # Nil) => executed # <<>>

C9_Witness ==
    /\ runPc = "done"
    /\ result = Nil
    /\ executed = <<2, 3>>
    /\ Len(objects["output"]) = 1

stepName(s) == CASE s = 1 -> "hashEncryt" [] s = 2 -> "reEncrypt" [] OTHER -> "match"

Last(q) == q[Len(q)]

\* C10 as stated: the error of a failing step is returned wrapped with the
\* name of that step.
C10_WrappedWithStepName ==
    (runPc = "done" /\ err # Nil) => result = Wrap(stepName(Last(executed)), err)

\* C10, amended: when a step returns an error, Run returns it wrapped with the
\* step's name for step 1 (hashEncryt) and step 2 (reEncrypt), and as the match
\* returned it for step 3; from the moment the step's error is set no step is
\* started, so no later step runs and none is retried.
C10_StepErrorAborts ==
    /\ [](  (runPc = "done" /\ err # Nil) =>
                /\ Last(executed) \in {1, 2} => result = Wrap(stepName(Last(executed)), err)
                /\ Last(executed) = 3 => result = err
                /\ \A i, j \in DOMAIN executed : executed[i] = executed[j] => i = j)
    /\ [][err # Nil => (executed' = executed /\ err' = err)]_runVars

\* Step 2 failed after step 1, with an output target given.
C10_Witness ==
    /\ runPc = "done"
    /\ output
    /\ executed = <<1, 2>>
    /\ err # Nil
    /\ result = Wrap("reEncrypt", err)


\* C11: step 3 has read a triple-encrypted input or written match output
\* only after a poll returned a publisher in DATA_TRANSFORMED, RUNNING or
\* SUCCEEDED; and a wait ends without the match only by an error of the
\* service call or by the one-hour ceiling, never because the publisher is
\* in an earlier state.
C11_MatchOnlyWhenPublisherReady ==
    /\ [](runPc = "match" \/ dataRead \cap {"advTriple", "pubTriple", "local"} # {}
              \/ objects["output"] # <<>>
            => /\ polls > 0
               /\ firstPublisherState(cleanroom)
                      \in {"DATA_TRANSFORMED", "RUNNING", "SUCCEEDED"})
    /\ [][(runPc = "match_wait" /\ runPc' # "match_wait")
            => \/ runPc' = "match"
               \/ /\ runPc' = "done"
                  /\ result' # Nil
                  /\ result'[1] = "failed to wait for publisher"]_vars

\* The first poll saw a publisher in an earlier state, the second a ready
\* one, and the match ran to the end.
C11_Witness ==
    /\ runPc = "done"
    /\ result = Nil
    /\ polls = 2
    /\ executed = <<3>>
    /\ "advTriple" \in dataRead
    /\ objects["output"] # <<>>


-----------------------------------------------------------------------------
\* Properties of re-invocation

\* C12: an invocation at any state pair the clean room reaches calls the
\* steps from the selected one forward, and when a later invocation has
\* returned nil after the match, the match ran on the data a run from step 1
\* produces: the complete twice-encrypted advertiser data (which the publisher
\* turns into the advertiser input of the match) and, when the match reads the
\* bucket, the complete triple-encrypted publisher data. Invocations that
\* failed part-way are among the earlier ones.
C12_ResumedRunMatchesFullRun ==
    /\ \A i \in DOMAIN executed : executed[i] = firstStep(action) + i - 1
    /\ (invocation > 1 /\ runPc = "done" /\ result = Nil
            /\ \E i \in DOMAIN executed : executed[i] = 3)
         => /\ dataFull("advTwice", 1)
            /\ publisherData \/ dataFull("pubTriple", 2)

-----------------------------------------------------------------------------
\* Properties of the orchestrator, continued

\* C13: without an output target Run never waits for the publisher and never
\* matches (no poll, no read of a triple-encrypted input, no match output);
\* when the observed state selects step 3 it returns nil having called no
\* step, read nothing and written nothing; when the observed state selects
\* step 1 or 2 a nil return comes right after step 2 returned nil.
C13_NoOutputNoMatch ==
    /\ [](~output =>
            /\ runPc \notin {"match_wait", "match"}
            /\ \A i \in DOMAIN executed : executed[i] # 3
            /\ polls = 0
            /\ dataRead \cap {"advTriple", "pubTriple", "local"} = {}
            /\ objects["output"] = <<>>)
    /\ []((~output /\ runPc = "done" /\ firstStep(action) = 3) =>
            /\ result = Nil
            /\ executed = <<>>
            /\ objects = [l \in Locations |-> <<>>]
            /\ markers = {}
            /\ dataRead = {})
    /\ []((~output /\ runPc = "done" /\ result = Nil /\ firstStep(action) \in {1, 2}) =>
            /\ Last(executed) = 2
            /\ err = Nil)
    /\ [][(~output /\ runPc = "reEncrypt_Complete" /\ err = Nil)
            => (runPc' = "done" /\ result' = Nil)]_vars

\* Steps 1 and 2 ran without an output target and Run returned nil.
C13_Witness ==
    /\ ~output /\ runPc = "done" /\ result = Nil
    /\ executed = <<1, 2>> /\ markers = {"advTwice", "pubTriple"}

\* C15: when Run has gone on from a step to the next one, the advertiser state
\* of the clean room has been advanced for the step left behind: it is
\* DATA_CONTRIBUTED or later once step 1 is followed by step 2, and
\* DATA_TRANSFORMED once step 2 is followed by step 3.
C15_AdvancedBeforeNextStep ==
    \A i \in 1..(Len(executed) - 1) :
        /\ executed[i] = 1 =>
               stateOfRole(cleanroom, "ADVERTISER") \in {"DATA_CONTRIBUTED", "DATA_TRANSFORMED"}
        /\ executed[i] = 2 =>
               stateOfRole(cleanroom, "ADVERTISER") = "DATA_TRANSFORMED"

-----------------------------------------------------------------------------
\* Properties of the transform engine, continued

\* C14: once a worker has failed with an error other than the clean end of
\* the stream (the run-time limit not being reached), no goroutine of the call
\* panics, and when the engine has
\* returned it has returned the error of the first failing worker (as it is,
\* or wrapped by the wait of the group).
C14_FirstWorkerErrorReturned ==
    (firstFailure # Nil /\ ctxErr # DeadlineExceeded) =>
        /\ ~panicked
        /\ mainPc = "returned" =>
               opResult \in {firstFailure, Wrap("g.Wait", firstFailure)}

C18_ShuffleOnlyForReEncrypt ==
    \A j \in DOMAIN out :
        /\ out[j].shuffled = (op = "ReEncrypt")
        /\ out[j].n <= MaxShuffle =>
              /\ Len(out[j].order) = out[j].n
              /\ \A k, h \in 1..out[j].n :
                     /\ out[j].order[k] \in 1..MaxShuffle
                     /\ out[j].order[k] = out[j].order[h] => k = h
        /\ op \in {"HashEncrypt", "Decrypt"} => out[j].order = InputOrder(out[j].n)

\* ReEncrypt wrote a batch of MaxShuffle records in an order that is not the
\* input's.
C18_Witness ==
    /\ op = "ReEncrypt" /\ inputLen = MaxShuffle
    /\ Len(out) = 1 /\ out[1].n = MaxShuffle
    /\ out[1].order[1] = MaxShuffle /\ out[1].order[2] = 1

-----------------------------------------------------------------------------
\* Properties of the matcher, continued

\* The places of the result files that hold record rec.
placesOf(rec) ==
    UNION {{<<i, k>> : k \in {h \in DOMAIN files[i] : files[i][h] = rec}} : i \in Slots}

\* The ids of the advertiser files and of the publisher stream.
advertiserSet == UNION {{advStreams[i][k] : k \in DOMAIN advStreams[i]} : i \in DOMAIN advStreams}
publisherSet == {pubID(r) : r \in 1..inputLen}

\* C16: when Match has returned nil, whatever the number of workers, the
\* result files hold exactly the ids that are in an advertiser file and in the
\* publisher stream, each under the publisher's key only, each in exactly one
\* place of one file; nothing else is in the files, nothing is left in a
\* buffer, and the written count is the size of the intersection: the same
\* set and count for every worker count.
C16_FilesHoldTheIntersection ==
    (matchPc = "returned" /\ matchResult = Nil) =>
        /\ \A id \in IDs :
              Cardinality(placesOf([id |-> id, key |-> "publisher"])) =
                  IF id \in advertiserSet \cap publisherSet THEN 1 ELSE 0
        /\ \A i \in Slots : \A k \in DOMAIN files[i] :
              /\ files[i][k].key = "publisher"
              /\ files[i][k].id \in advertiserSet \cap publisherSet
        /\ \A i \in Slots : wbuf[i] = <<>>
        /\ \A i \in Slots : i > numWorkers => files[i] = <<>>
        /\ mWritten = Cardinality(advertiserSet \cap publisherSet)

\* Two workers wrote the two matched ids to one file each and Match returned
\* nil.
C16_Witness ==
    /\ matchPc = "returned" /\ matchResult = Nil
    /\ numWorkers = 2
    /\ Cardinality(advertiserSet \cap publisherSet) = 2
    /\ Len(files[1]) = 1 /\ Len(files[2]) = 1

-----------------------------------------------------------------------------
\* Properties of the transform engine: the three operations composed

-----------------------------------------------------------------------------
\* Properties of the secondary writer

\* C21: when ReEncrypt runs with a secondary writer (the local copy of step 2)
\* and returns nil, the records on the secondary sink are the records on the
\* primary sink (the publisher-triple object), batch by batch in the same
\* order, and they are all the records of the source object.
C21_LocalCopyEqualsBucketCopy ==
    (secondary /\ opResult = Nil) =>
        /\ out2 = out
        /\ \A r \in 1..inputLen : Cardinality({j \in DOMAIN out2 : r \in records(out2[j])}) = 1

\* Two shuffled batches went to both sinks and the call returned nil.
C21_Witness ==
    /\ secondary /\ opResult = Nil /\ mainPc = "returned"
    /\ inputLen = batchSize + 1
    /\ Len(out2) = 2 /\ out2 = out

-----------------------------------------------------------------------------
\* Properties of the coordination-service client

Contains(e, x) == \E k \in DOMAIN e : e[k] = x

IsSuffix(p, q) == Len(p) <= Len(q) /\ \A k \in 1..Len(p) : p[k] = q[Len(q) - Len(p) + k]

\* The call got a response whose status is not 200.
refused(c) == c.status \notin {"none", StatusOK}

\* C22: every call of the coordination service a command makes whose response has a status other than 200 returns no Cleanroom and
\* an error that holds the status code, and the command that made the call
\* returns an error that holds the error of the call.
C22_StatusCodeInError ==
    \A k \in DOMAIN calls :
           refused(calls[k]) =>
               /\ ~calls[k].res
               /\ Contains(calls[k].err, calls[k].status)
               /\ cmdResult # Nil
               /\ cmdResult # Pending
               /\ IsSuffix(calls[k].err, cmdResult)

-----------------------------------------------------------------------------
\* Properties of key create

\* The context of the last invocation had a key when it was invoked.
hadKey == lastCreate.before.ok /\ lastCreate.before.configs[lastCreate.context] # 0

\* The key stored for the context of the last invocation is one generated by
\* that invocation: it differs from every key generated before.
replaced ==
    /\ keyFile.ok
    /\ keyFile.configs[lastCreate.context] = generated
    /\ \A c \in Contexts : lastCreate.before.configs[c] < generated

-----------------------------------------------------------------------------
\* Properties of the wait for the publisher

timeoutError == <<"failed to wait for publisher", "timeout after 1h0m0s">>

\* C24: the wait for the publisher always ends; it ends with success only at
\* a poll that observes the publisher in DATA_TRANSFORMED, RUNNING or
\* SUCCEEDED, and such a poll ends it; the error of the timeout is not the
\* one of a cancellation; the wait goes on after a poll only when the poll
\* succeeded and saw another state (a failed poll is not retried).
C24_WaitAlwaysEnds ==
    /\ [](runPc = "match_wait" => <>(runPc # "match_wait"))
    /\ [][(runPc = "match_wait" /\ runPc' = "match") =>
              (pollPending /\ firstPublisherState(cleanroom) \in readyStates)]_vars
    /\ [][(pollPending /\ ~pollPending' /\ runPc' = "match_wait") =>
              firstPublisherState(cleanroom) \notin readyStates]_vars
    /\ [](runPc = "done" /\ result = timeoutError =>
              (~Contains(result, Canceled[1]) /\ ~Contains(result, DeadlineExceeded[1])))
-----------------------------------------------------------------------------
\* Properties of the completion barrier of runPAIROperation

-----------------------------------------------------------------------------
\* Properties of the write lock

\* The batch of the input a chunk of the sink belongs to.
batchOf(c) == (c.lo - 1) \div batchSize

\* C26: at most one goroutine is inside WriteAll at a time; a goroutine is
\* inside WriteAll, from its first record to its flush, exactly while it
\* holds writeLock, and it takes the lock with its batch fully transformed;
\* the records of one batch are on the sink in one piece, with no record of
\* another batch among them.
C26_WritesSerialized ==
    /\ Cardinality({i \in Slots : wpc[i] \in {"write", "flush"}}) <= 1
    /\ \A i \in Slots : (wpc[i] \in {"write", "flush"}) <=> (writeLock = i)
    /\ \A i \in Slots : wpc[i] \in {"lock", "write", "flush"} =>
            /\ wids[i].n > 0
            /\ wids[i].n <= MaxShuffle => Len(worder[i]) = wids[i].n
    /\ \A a, b \in DOMAIN out : batchOf(out[a]) = batchOf(out[b]) => a = b

\* A part of the first batch is on the sink and its writer has not flushed
\* yet, while another goroutine waits for the lock with the second batch.
C26_Witness ==
    /\ inputLen = batchSize + 1
    /\ \E i, j \in Slots :
          /\ wpc[i] = "flush" /\ wids[i].lo = 1
          /\ wpc[j] = "lock" /\ wids[j].lo = batchSize + 1
    /\ Len(out) = 1 /\ out[1].n = batchSize - 1

-----------------------------------------------------------------------------
\* Properties of the worker pool

\* The goroutines of the group that hold a batch: transforming it, waiting
\* for the lock or writing it.
working == {i \in Slots : wpc[i] \in {"transform", "lock", "write", "flush"}}

-----------------------------------------------------------------------------
\* Properties of the run-time limit

\* C28: once the deadline of maxOperationRunTime has passed, runPAIROperation
\* returns, whatever the reader and the workers are doing; when it returns
\* by the ctx.Done case its result is the error of the context; and what is
\* on the sink stays there.
C28_TimeoutAlwaysReturns ==
    /\ [](ctxErr = DeadlineExceeded => <>(mainPc = "returned"))
    /\ [][(mainPc = "select" /\ mainPc' = "returned" /\ errChan' = errChan /\ checks' = checks)
              => opResult' = ctxErr]_vars
    /\ [][Len(out') >= Len(out)]_vars

-----------------------------------------------------------------------------
\* Properties of the reader

\* C29: when the operation has returned with an error, a cancellation or a
\* timeout while its reader still runs, the reader returns (unless the
\* process has ended by a panic): it closes the queue, with the reason of the
\* cancellation as its error, also when the queue is full and nothing
\* receives from it.
C29_ReaderStopsOnAbort ==
    [](mainPc = "returned" =>
          <>(\/ panicked
             \/ /\ readerPc = "returned"
                /\ batchClosed
                /\ readerErr \in {Canceled, DeadlineExceeded}))

\* C30: the batches the reader has sent are consecutive runs of the input, in
\* input order, of 1 to batchSize records each, all full but possibly the
\* last; when the queue is closed after io.EOF they hold every record of the
\* input; once the queue is closed the reader has returned, nothing more is
\* sent and the queue stays closed; and a worker that finds the queue closed
\* and drained finds the reader's error set (io.EOF on a clean stream).
C30_ReaderBatchesCleanStream ==
    /\ [](\A j \in DOMAIN sent :
             /\ sent[j].lo = (IF j = 1 THEN 1 ELSE sent[j - 1].lo + sent[j - 1].n)
             /\ sent[j].n >= 1 /\ sent[j].n <= batchSize
             /\ j < Len(sent) => sent[j].n = batchSize)
    /\ []((batchClosed /\ readerErr = EOF) =>
             /\ sent = <<>> => inputLen = 0
             /\ sent # <<>> => Last(sent).lo + Last(sent).n = inputLen + 1)
    /\ [](batchClosed => (readerPc = "returned" /\ readerErr # Nil))
    /\ [][batchClosed => (batchClosed' /\ sent' = sent /\ readerErr' = readerErr)]_vars
    /\ [][\A i \in Slots :
            (wpc[i] = "operate" /\ wpc'[i] = "once")
                => (batchClosed /\ batch = <<>> /\ readerErr = EOF)]_vars

\* A full batch and a last batch of one record were sent, the queue is
\* closed, and a worker has found it closed with io.EOF set.
C30_Witness ==
    /\ inputLen = batchSize + 1
    /\ batchClosed /\ readerErr = EOF
    /\ Len(sent) = 2 /\ sent[1].n = batchSize /\ sent[2].n = 1
    /\ \E i \in Slots : wpc[i] = "once"

-----------------------------------------------------------------------------
\* Malformed input lines

\* A call of the Transform Engine or a construction and run of the Matcher:
\* the reader, its queue and the errors are the same in both.
SpecParse == (InitEngine \/ InitMatch) /\ [][NextEngine \/ NextMatch]_vars

ParseError == <<"parse error">>

\* The state is one of a Matcher (it has advertiser streams), not of a call
\* of the Transform Engine.
ofMatcher == advStreams # <<>>

-----------------------------------------------------------------------------
\* A Matcher with more matches to forward than m.intersected holds

\* The number of ids, all of them matches, of the publisher and of the one
\* advertiser stream: over a batch, so that the last batch starts when
\* m.intersected is full.
toForward == batchSize + 2

\* Match has started one consumer, which has not run yet; the reader has read
\* the whole publisher stream and the producer has forwarded all ids but the
\* last of the first batch.
InitForward ==
    /\ advStreams = <<[k \in 1..toForward |-> k]>>
    /\ pubPattern = [k \in 1..toForward |-> k]
    /\ inputLen = toForward
    /\ keyOk = TRUE
    /\ requested = 1
    /\ maxWorkers = 1
    /\ op = "Decrypt"
    /\ faulted = FALSE
    /\ readerPc = "returned"
    /\ pos = toForward
    /\ ids = NoBatch
    /\ read = toForward
    /\ readerErr = EOF
    /\ batch = <<[lo |-> batchSize + 1, n |-> toForward - batchSize]>>
    /\ batchClosed = TRUE
    /\ sent = <<[lo |-> 1, n |-> batchSize],
                [lo |-> batchSize + 1, n |-> toForward - batchSize]>>
    /\ mainPc = "returned"
    /\ done = 0
    /\ doneClosed = FALSE
    /\ errChan = <<>>
    /\ errChanClosed = FALSE
    /\ once = FALSE
    /\ ctxErr = Nil
    /\ gErr = Nil
    /\ wpc = [i \in Slots |-> "idle"]
    /\ wids = [i \in Slots |-> NoBatch]
    /\ worder = [i \in Slots |-> <<>>]
    /\ werr = [i \in Slots |-> Nil]
    /\ writeLock = 0
    /\ written = 0
    /\ out = <<>>
    /\ panicked = FALSE
    /\ checks = 0
    /\ opResult = Nil
    /\ firstFailure = Nil
    /\ secondary = FALSE
    /\ out2 = <<>>
    /\ signals = 0
    /\ advPc = <<"returned">>
    /\ advPos = <<toForward>>
    /\ maps = <<{}>>
    /\ advRead = toForward
    /\ newCtxErr = Nil
    /\ newErr = Nil
    /\ hashMap = batchSize..toForward
    /\ matchPc = "Wait"
    /\ prodPc = "scan"
    /\ prodBatch = [lo |-> 1, n |-> batchSize]
    /\ cursor = batchSize
    /\ intersected = [k \in 1..(batchSize - 1) |-> k]
    /\ intersectedClosed = FALSE
    /\ cpc = [i \in Slots |-> IF i = 1 THEN "NewWriter" ELSE "idle"]
    /\ wsnap = [i \in Slots |-> <<>>]
    /\ wbuf = [i \in Slots |-> <<>>]
    /\ files = [i \in Slots |-> <<>>]
    /\ writers = <<>>
    /\ mWritten = 0
    /\ forwarded = [k \in 1..(batchSize - 1) |-> k]
    /\ matchResult = Pending
    /\ IdleRun
    /\ IdleList

NextForward ==
    \/ Match_timeout
    \/ producer_range
    \/ producer_scan
    \/ \E i \in Slots :
         \/ consumer_NewWriter(i)
         \/ consumer_append(i)
         \/ consumer_range(i)
    \/ Match_Wait

\* The goroutines of Match run when they can; when the deadline passes is
\* not theirs to choose.
FairForward ==
    /\ WF_vars(producer_range)
    /\ WF_vars(producer_scan)
    /\ \A i \in Slots :
         WF_vars(consumer_NewWriter(i) \/ consumer_append(i) \/ consumer_range(i))
    /\ WF_vars(Match_Wait)

SpecForward == InitForward /\ [][NextForward]_vars /\ FairForward

\* C32: once a consumer has failed or the deadline has passed, the producer
\* and the consumers stop and Match returns: it does not block for ever,
\* however many matches are still to be forwarded.
C32_MatchNeverBlocks ==
    [](( matchPc = "Wait" /\ ctxErr # Nil) => <>(matchPc = "returned"))

-----------------------------------------------------------------------------
\* Construction of the Matcher

\* The ids of all the advertiser streams.
advIDs == UNION {{advStreams[i][j] : j \in DOMAIN advStreams[i]} : i \in Readers}

\* Match has started its producer and consumers.
matching == prodPc # "idle" \/ \E i \in Slots : cpc[i] # "idle"

-----------------------------------------------------------------------------
\* Partial output of a failed invocation

\* Step s of this invocation returned nil and committed all its output at loc.
rerunDone(loc, s) ==
    /\ stepOk(s)
    /\ objects[loc] # <<>>
    /\ \A i \in DOMAIN objects[loc] : Durable(objects[loc][i])

\* C34: when a step has succeeded in a re-run of the command, its destination
\* holds the output of that run only: a partial object that a failed earlier
\* invocation committed there has been overwritten.
C34_RerunOverwritesPartial ==
    \A loc \in {"advTwice", "pubTriple"} :
        (invocation > 1 /\ rerunDone(loc, IF loc = "advTwice" THEN 1 ELSE 2))
            => loc \notin leftover

-----------------------------------------------------------------------------
\* Locations a step touches

\* The step Run is in: 0 outside the steps.
stepAt(pc) ==
    IF pc \in {"hashEncryt", "HashEncrypt", "hashEncryt_Close", "hashEncryt_Complete"}
    THEN 1
    ELSE IF pc \in {"reEncrypt", "ReEncrypt", "reEncrypt_Close", "reEncrypt_Complete"}
    THEN 2
    ELSE IF pc \in {"match_wait", "match"}
    THEN 3
    ELSE 0

remote == {"advTwice", "pubTwice", "advTriple", "pubTriple"}

\* C35: step 1 writes data and marker at the advertiser-twice location only;
\* step 2 reads the publisher-twice location only and writes data and marker
\* at the publisher-triple location only, plus the local copy when a path
\* for the publisher data was given; step 3 writes at no remote location and
\* no marker; a marker once written stays.
C35_StepsTouchTheirLocations ==
    [][LET s == stepAt(runPc)
           wrote == {loc \in Locations : objects'[loc] # objects[loc]}
           marked == markers' \ markers
           readNow == dataRead' \ dataRead
       IN /\ markers \subseteq markers'
          /\ s = 0 => (wrote = {} /\ marked = {})
          /\ s = 1 => (wrote \subseteq {"advTwice"} /\ marked \subseteq {"advTwice"}
                        /\ readNow \cap remote = {})
          /\ s = 2 => /\ wrote \subseteq
                           ({"pubTriple"} \cup (IF publisherData THEN {"local"} ELSE {}))
                      /\ marked \subseteq {"pubTriple"}
                      /\ readNow \subseteq {"pubTwice"}
          /\ s = 3 => (wrote \cap remote = {} /\ marked = {})]_vars

\* The three steps have run, with the local copy: both markers are written,
\* the publisher-twice location was read, and the match has written its
\* output.
C35_Witness ==
    /\ runPc = "done"
    /\ executed = <<1, 2, 3>>
    /\ markers = {"advTwice", "pubTriple"}
    /\ "pubTwice" \in dataRead
    /\ objects["advTwice"] # <<>> /\ objects["pubTriple"] # <<>>
    /\ objects["local"] # <<>> /\ objects["output"] # <<>>

-----------------------------------------------------------------------------
\* Listing a storage location

\* readersFromPrefixedBucket is called on a prefix that holds any objects.
InitList ==
    /\ listing \in Listings
    /\ listPc = "Next"
    /\ listPos = 0
    /\ readers = <<>>
    /\ listErr = Nil
    /\ IdleRun
    /\ IdleEngine
    /\ IdleMatch

NextList == readersFromPrefixedBucket_Next

SpecList == InitList /\ [][NextList]_vars

\* The object is a marker: ".Completed" right under the prefix or under a
\* directory below it.
isMarker(obj) ==
    /\ HasSuffix(obj.name, CompletedFile)
    /\ Len(obj.name) > 1 => obj.name[Len(obj.name) - 1] = "/"

\* A directory-like entry: its name ends in the separator.
isDirectory(obj) == obj.name[Len(obj.name)] = "/"

\* The names of the objects of l that are neither the marker, nor
\* directory-like, nor empty, in the order of l.
dataObjects(l) ==
    LET keep(o) == ~isMarker(o) /\ ~isDirectory(o) /\ o.size # 0
        sel == SelectSeq(l, keep)
    IN [i \in DOMAIN sel |-> sel[i].name]

\* C36: a listing that returned without error opened a reader for every
\* object under the prefix that is not the .Completed marker, not a
\* directory-like entry and not empty, once each and for no other object.
C36_ListingKeepsDataObjects ==
    (listPc = "returned" /\ listErr = Nil /\ listing # <<>>)
        => readers = dataObjects(listing)

-----------------------------------------------------------------------------
\* Channels of runPAIROperation after the return

\* C37: no goroutine of the call sends on errChan or on done after the main
\* loop has closed the channel: the process does not panic with a send on a
\* closed channel, whichever workers fail or reach the end of the stream.
C37_NoSendOnClosedChannel == ~panicked


\* C38: once the call has returned, with nil, with an error of a worker or
\* with the error of the context, no goroutine it started writes to the
\* output any more.
C38_NoWriteAfterReturn ==
    [][mainPc = "returned" => (out' = out /\ out2' = out2 /\ written' = written)]_vars

-----------------------------------------------------------------------------
\* A call on an input that ends or fails

\* The input delivers: the reader's Read returns a record, the end of the
\* stream or an error. The select of the loop picks at random among its
\* ready cases, so a case that is ready again and again is taken in the end.
FairEnds ==
    /\ FairEngine
    /\ WF_vars(readPAIRIDs_read)
    /\ SF_vars(runPAIROperation_errChan)
    /\ SF_vars(runPAIROperation_done)
    /\ SF_vars(runPAIROperation_ctxDone)

SpecEngineEnds == InitEngine /\ [][NextEngine]_vars /\ FairEnds

\* C39: when the input ends or fails, the call returns: the main loop and
\* the goroutines it started do not block each other for ever. (A run that
\* ends in the panic of a send on a closed channel, or in which the run-time
\* limit passes, is not counted here.)
C39_CallReturns ==
    <>(mainPc = "returned" \/ panicked \/ ctxErr = DeadlineExceeded)

-----------------------------------------------------------------------------
\* The files of the Matcher's writer

\* C40: every consumer that has opened its output file and entered its loop
\* has that file in w.writers, the files writer.Close() closes when Match
\* returns: no registration is lost to the append of another consumer.
C40_EveryFileRecorded ==
    \A i \in Slots :
        cpc[i] = "range" => \E j \in DOMAIN writers : writers[j] = i

=============================================================================
